---------------------------- MODULE Spec2Model ----------------------------
(***************************************************************************)
(* Model of the parameter-space sampler of smash                           *)
(* (smash/core/generate_samples.py): generate_samples, its argument        *)
(* standardisation, and the SampleResult container (slice, iterslice).     *)
(*                                                                         *)
(* Python values whose type the code inspects (isinstance, "is None") are  *)
(* tagged records [type |-> ..., val |-> ...].  Real numbers are exact     *)
(* rationals [num, den].  A numpy array is a view [base, off, len] on a    *)
(* buffer of mem, as numpy basic slicing returns views.                    *)
(***************************************************************************)
EXTENDS Integers, Sequences, FiniteSets, TLC

VARIABLES
    np_random,  \* state of the process-wide numpy random stream
    mem,        \* array buffers: buffer id -> sequence of numbers
    sr,         \* the SampleResult the caller holds (PyNone before the first)
    call,       \* record of the last public call: its arguments and outcome
    slc,        \* outcome of the last SampleResult.slice call
    it,         \* the generator object returned by the last iterslice call
    yielded,    \* the slices the consumer received from it, in order
    th,         \* per-thread state of concurrent generate_samples calls
    opt,        \* the optimizer instances constructed so far
    heap        \* the problem dictionaries and the lists they refer to

vars == <<np_random, mem, sr, call, slc, it, yielded, th, opt, heap>>

---------------------------------------------------------------------------
(* Bounds of the model *)

\* largest number of samples n asked of generate_samples
MaxN == 2
\* largest random_state (seeds are 0..MaxSeed)
MaxSeed == 1
\* number of states of the stand-in random stream
RngMod == 8

\* the largest batch that is sliced and iterated
MaxLen == 4

\* the longest parameter tensor an optimizer is given
MaxDim == 2
\* the most update calls made on one optimizer instance
MaxUpdates == 3

---------------------------------------------------------------------------
(* Python values *)

PyNone == [type |-> "NoneType"]
PyInt(i) == [type |-> "int", val |-> i]
PyStr(s) == [type |-> "str", val |-> s]
PyDict(d) == [type |-> "dict", val |-> d]
PyList(l) == [type |-> "list", val |-> l]

isinstance(v, t) == v.type \in t

\* dict item assignment d[k] = v
SetItem(d, k, v) == [x \in (DOMAIN d) \cup {k} |-> IF x = k THEN v ELSE d[x]]

\* str.lower on the strings the model feeds in
lower(s) ==
    CASE s = "Uniform" -> "uniform"
      [] s = "NORMAL" -> "normal"
      [] OTHER -> s

---------------------------------------------------------------------------
(* Exact rational arithmetic standing for the code's float arithmetic *)

Abs(x) == IF x < 0 THEN -x ELSE x

\* Euclid's algorithm on the pair ab
gcd[ab \in Nat \X Nat] ==
    IF ab[2] = 0 THEN ab[1] ELSE gcd[<<ab[2], ab[1] % ab[2]>>]

GCD(a, b) == gcd[<<a, b>>]

\* the rational p/q in lowest terms with a positive denominator (q # 0)
Rat(p, q) ==
    LET g == GCD(Abs(p), Abs(q))
        s == IF q < 0 THEN -1 ELSE 1
    IN  [num |-> (s * p) \div g, den |-> (s * q) \div g]

RInt(i) == Rat(i, 1)
RAdd(x, y) == Rat(x.num * y.den + y.num * x.den, x.den * y.den)
RSub(x, y) == Rat(x.num * y.den - y.num * x.den, x.den * y.den)
RMul(x, y) == Rat(x.num * y.num, x.den * y.den)
RDiv(x, y) == Rat(x.num * y.den, x.den * y.num)
RLe(x, y) == x.num * y.den <= y.num * x.den
RLt(x, y) == x.num * y.den < y.num * x.den

---------------------------------------------------------------------------
(* The process-wide random stream (numpy's global RandomState).  The       *)
(* Mersenne Twister is stood for by a small congruential generator: what   *)
(* matters to the code is that seed() overwrites the state, that every     *)
(* draw reads the state and advances it, and that the same state gives     *)
(* the same draws.                                                         *)

RngStates == 0 .. (RngMod - 1)

\* np.random.seed(s)
np_random_seed(s) == s % RngMod

\* one step of the stream
RngStep(r) == (5 * r + 3) % RngMod

\* the stream k steps after state r
RngAdvance(r, k) ==
    LET after[j \in 0 .. k] == IF j = 0 THEN r ELSE RngStep(after[j - 1])
    IN  after[k]

\* the k-th (k >= 1) number in [0, 1) drawn from state r
RngUnit(r, k) == Rat(RngAdvance(r, k - 1), RngMod)

\* np.random.uniform(low, upp, n) from state r: n numbers in [low, upp)
np_random_uniform(low, upp, n, r) ==
    [k \in 1 .. n |-> RAdd(RInt(low), RMul(RInt(upp - low), RngUnit(r, k)))]

\* np.ones(n)
np_ones(n) == [k \in 1 .. n |-> RInt(1)]

(* scipy.stats.truncnorm(a, b, loc, scale): a normal distribution of mean   *)
(* loc and standard deviation scale, truncated to                          *)
(* [loc + a * scale, loc + b * scale].                                     *)
truncnorm(a, b, loc, scale) == [a |-> a, b |-> b, loc |-> loc, scale |-> scale]

TruncLow(d) == RAdd(d.loc, RMul(d.a, d.scale))
TruncUpp(d) == RAdd(d.loc, RMul(d.b, d.scale))

(* frozen.rvs(size=n) draws from the process-wide stream by inversion; the  *)
(* quantile function, monotone from [0, 1) onto the truncation interval,   *)
(* is stood for by the linear interpolation between its two ends.          *)
truncnorm_rvs(d, n, r) ==
    [k \in 1 .. n |->
        RAdd(TruncLow(d), RMul(RSub(TruncUpp(d), TruncLow(d)), RngUnit(r, k)))]

\* frozen.pdf(x): the density of d at each element of x, kept symbolic
truncnorm_pdf(d, x) == [k \in 1 .. Len(x) |-> [pdf |-> d, at |-> x[k]]]

---------------------------------------------------------------------------
(* Constants of smash.core._constant, which generate_samples.py imports *)

PROBLEM_KEYS == {"num_vars", "names", "bounds"}

SAMPLE_GENERATORS == {"uniform", "normal", "gaussian"}

---------------------------------------------------------------------------
(* Problem definition and its validation *)

(* _get_bound_constraints(setup, states): the problem read from a Model's   *)
(* setup; the control vector is the structure's states or parameters and   *)
(* each bound pair is the setup's lower and upper bound of that name.      *)
_get_bound_constraints(setup, states) ==
    LET control_vector == IF states THEN setup.states ELSE setup.parameters
        bounds == [i \in 1 .. Len(control_vector) |->
                      <<setup.lb[control_vector[i]], setup.ub[control_vector[i]]>>]
    IN  PyDict([num_vars |-> Len(control_vector),
                names |-> control_vector,
                bounds |-> bounds])

\* warnings.warn(...) records: what was warned about
Warning(what, keys) == [what |-> what, keys |-> keys]

Raise(exc) == [status |-> exc, problem |-> PyNone, warnings |-> <<>>]

\* mutant of _standardize_problem: one required key is enough
_standardize_problem_AnyKey(problem, setup, states) ==
    IF problem = PyNone
    THEN [status |-> "ok",
          problem |-> _get_bound_constraints(setup, states),
          warnings |-> <<>>]
    ELSE IF isinstance(problem, {"dict"})
    THEN LET prl_keys == DOMAIN problem.val
             unk_keys == {k \in prl_keys : k \notin PROBLEM_KEYS}
         IN  IF ~ (\E k \in PROBLEM_KEYS : k \in prl_keys)
             THEN Raise("KeyError")
             ELSE [status |-> "ok",
                   problem |-> problem,
                   warnings |-> IF unk_keys # {}
                                THEN <<Warning("problem", unk_keys)>>
                                ELSE <<>>]
    ELSE Raise("TypeError")

_standardize_problem(problem, setup, states) ==
    IF problem = PyNone
    THEN [status |-> "ok",
          problem |-> _get_bound_constraints(setup, states),
          warnings |-> <<>>]
    ELSE IF isinstance(problem, {"dict"})
    THEN LET prl_keys == DOMAIN problem.val
             unk_keys == {k \in prl_keys : k \notin PROBLEM_KEYS}
         IN  IF ~ (\A k \in PROBLEM_KEYS : k \in prl_keys)
             THEN Raise("KeyError")
             ELSE [status |-> "ok",
                   problem |-> problem,
                   warnings |-> IF unk_keys # {}
                                THEN <<Warning("problem", unk_keys)>>
                                ELSE <<>>]
    ELSE Raise("TypeError")

\* np.mean(problem["bounds"], axis=1) zipped with problem["names"]
BoundsCenter(problem) ==
    LET names == problem.val.names
        bounds == problem.val.bounds
    IN  [p \in {names[i] : i \in 1 .. Len(names)} |->
            LET i == CHOOSE j \in 1 .. Len(names) :
                        names[j] = p /\ \A l \in (j + 1) .. Len(names) : names[l] # p
            IN  Rat(bounds[i][1] + bounds[i][2], 2)]

\* the names of problem["names"] as a set
NameSet(problem) == {problem.val.names[i] : i \in 1 .. Len(problem.val.names)}

(* The loop over user_mean.items(): a warning per key that is no name of    *)
(* the problem, mean.update per numeric value, TypeError at the first     *)
(* value that is neither int nor float.  Keys are visited in sequence     *)
(* order (the dict's insertion order).                                    *)
UserMeanLoop(problem, items, mean, warns) ==
    LET after[j \in 0 .. Len(items)] ==
            IF j = 0
            THEN [status |-> "ok", mean |-> mean, warnings |-> warns]
            ELSE LET before == after[j - 1]
                     name == items[j][1]
                     um == items[j][2]
                     w == IF name \notin NameSet(problem)
                          THEN Append(before.warnings, Warning("mean", {name}))
                          ELSE before.warnings
                 IN  IF before.status # "ok"
                     THEN before
                     ELSE IF isinstance(um, {"int", "float"})
                     THEN [status |-> "ok",
                           mean |-> SetItem(before.mean, name, RInt(um.val)),
                           warnings |-> w]
                     ELSE [status |-> "TypeError", mean |-> before.mean,
                           warnings |-> w]
    IN  after[Len(items)]

_standardize_generate_samples_args(problem, generator, user_mean) ==
    LET fail(exc, warns) ==
            [status |-> exc, generator |-> generator, mean |-> user_mean,
             warnings |-> warns]
        std == _standardize_problem(problem, PyNone, PyNone)
    IN  IF ~ isinstance(problem, {"dict"})
        THEN fail("TypeError", <<>>)
        ELSE IF std.status # "ok"
        THEN fail(std.status, std.warnings)
        ELSE IF ~ isinstance(generator, {"str"})
        THEN fail("TypeError", std.warnings)
        ELSE LET gen == lower(generator.val) IN
             IF gen \notin SAMPLE_GENERATORS
             THEN fail("ValueError", std.warnings)
             ELSE IF gen \in {"normal", "gaussian"}
             THEN IF user_mean = PyNone
                  THEN [status |-> "ok", generator |-> gen,
                        mean |-> BoundsCenter(problem),
                        warnings |-> std.warnings]
                  ELSE IF isinstance(user_mean, {"dict"})
                  THEN LET m == UserMeanLoop(problem, user_mean.val,
                                             BoundsCenter(problem), std.warnings)
                       IN  IF m.status = "ok"
                           THEN [status |-> "ok", generator |-> gen,
                                 mean |-> m.mean, warnings |-> m.warnings]
                           ELSE fail(m.status, m.warnings)
                  ELSE fail("TypeError", std.warnings)
             ELSE [status |-> "ok", generator |-> gen, mean |-> user_mean,
                   warnings |-> std.warnings]

---------------------------------------------------------------------------
(* generate_samples *)

\* mutant of _get_truncated_normal: the bounds are passed unstandardised
_get_truncated_normal_RawBounds(mean, sd, low, upp) ==
    truncnorm(RInt(low), RInt(upp), mean, sd)

_get_truncated_normal(mean, sd, low, upp) ==
    truncnorm(RDiv(RSub(RInt(low), mean), sd),
              RDiv(RSub(RInt(upp), mean), sd),
              mean, sd)

\* ret_dict as built before the stream is touched; _problem is problem.copy()
NewRetDict(problem, generator, n) ==
    LET d0 == [key \in NameSet(problem) |-> <<>>]
        d1 == SetItem(d0, "generator", generator)
        d2 == SetItem(d1, "n_sample", n)
    IN  SetItem(d2, "_problem", problem)

\* the standard deviation of variable bounds (low, upp)
StdDev(low, upp, coef_std) ==
    IF coef_std = PyNone
    THEN Rat(upp - low, 3)
    ELSE RDiv(RInt(upp - low), RInt(coef_std.val))

\* mutant of UniformWeights: the density divides by the upper bound alone
UniformWeights_OverUpp(low, upp, n) ==
    [k \in 1 .. n |-> RDiv(np_ones(n)[k], RInt(upp))]

\* np.ones(n) / (upp - low): the uniform density, once per sample
UniformWeights(low, upp, n) ==
    [k \in 1 .. n |-> RDiv(np_ones(n)[k], RInt(upp - low))]

(* One turn of the loop over problem["names"]: variable i is drawn from     *)
(* the process-wide stream st.rng and stored with its weights.            *)
(* An exception ends the loop: problem["bounds"] without that key is a     *)
(* KeyError, problem["bounds"][i] past the end an IndexError, and          *)
(* (upp - low) / coef_std with a coef_std that is no number a TypeError.   *)
SampleVariable(st, problem, generator, n, mean, coef_std, i) ==
    IF st.status # "ok"
    THEN st
    ELSE IF "bounds" \notin DOMAIN problem.val
    THEN [st EXCEPT !.status = "KeyError"]
    ELSE IF i > Len(problem.val.bounds)
    THEN [st EXCEPT !.status = "IndexError"]
    ELSE
    LET p == problem.val.names[i]
        low == problem.val.bounds[i][1]
        upp == problem.val.bounds[i][2]
    IN  IF generator = "uniform"
        THEN [ret |-> SetItem(SetItem(st.ret, p,
                                      np_random_uniform(low, upp, n, st.rng)),
                              "_" \o p, UniformWeights(low, upp, n)),
              rng |-> RngAdvance(st.rng, n),
              status |-> "ok"]
        ELSE IF generator \in {"normal", "gaussian"}
                /\ coef_std # PyNone
                /\ ~ isinstance(coef_std, {"int", "float"})
        THEN [st EXCEPT !.status = "TypeError"]
        ELSE IF generator \in {"normal", "gaussian"}
        THEN LET sd == StdDev(low, upp, coef_std)
                 trunc_normal == _get_truncated_normal(mean[p], sd, low, upp)
                 x == truncnorm_rvs(trunc_normal, n, st.rng)
             IN  [ret |-> SetItem(SetItem(st.ret, p, x),
                                  "_" \o p, truncnorm_pdf(trunc_normal, x)),
                  rng |-> RngAdvance(st.rng, n),
                  status |-> "ok"]
        ELSE st

\* the loop "for i, p in enumerate(problem["names"])" from state st
SampleLoop(st, problem, generator, n, mean, coef_std) ==
    LET after[i \in 0 .. Len(problem.val.names)] ==
            IF i = 0
            THEN st
            ELSE SampleVariable(after[i - 1], problem, generator, n, mean,
                                coef_std, i)
    IN  after[Len(problem.val.names)]

\* mutant of Reseed: the seed is added to the state the stream is in
Reseed_OntoState(random_state, rng) ==
    IF random_state # PyNone
    THEN np_random_seed(random_state.val + rng)
    ELSE rng

\* mutant of Reseed: a call without random_state reseeds with 0
Reseed_Always(random_state, rng) ==
    IF random_state # PyNone
    THEN np_random_seed(random_state.val)
    ELSE np_random_seed(0)

\* mutant of Reseed: the seed is never applied
Reseed_Never(random_state, rng) == rng

\* the stream after "if random_state is not None: np.random.seed(random_state)"
Reseed(random_state, rng) ==
    IF random_state # PyNone THEN np_random_seed(random_state.val) ELSE rng

(* generate_samples called when the process-wide stream is in state rng:   *)
(* the outcome, the returned dictionary (arrays as sequences) and the      *)
(* stream it leaves behind.                                                *)
generate_samples(problem, generator, n, random_state, mean, coef_std, rng) ==
    LET std == _standardize_generate_samples_args(problem, generator, mean)
    IN  IF std.status # "ok"
        THEN [status |-> std.status, warnings |-> std.warnings,
              ret |-> PyNone, rng |-> rng]
        ELSE IF "names" \notin DOMAIN problem.val
        THEN [status |-> "KeyError", warnings |-> std.warnings,
              ret |-> PyNone, rng |-> rng]
        ELSE LET st0 == [ret |-> NewRetDict(problem, std.generator, n),
                         rng |-> Reseed(random_state, rng),
                         status |-> "ok"]
                 st == SampleLoop(st0, problem, std.generator, n, std.mean,
                                  coef_std)
             IN  [status |-> st.status, warnings |-> std.warnings,
                  ret |-> IF st.status = "ok" THEN st.ret ELSE PyNone,
                  rng |-> st.rng]

---------------------------------------------------------------------------
(* SampleResult objects in memory *)

\* the keys of a SampleResult that hold no array
ScalarKeys == {"generator", "n_sample", "_problem"}

ArrayKeys(d) == (DOMAIN d) \ ScalarKeys

\* the buffers holding the arrays of a freshly returned dictionary
NewBuffers(ret) == [k \in ArrayKeys(ret) |-> ret[k]]

\* SampleResult(ret_dict): each array is the whole of its own buffer
SampleResult(ret) ==
    [k \in DOMAIN ret |->
        IF k \in ScalarKeys THEN ret[k]
        ELSE [base |-> k, off |-> 0, len |-> Len(ret[k])]]

\* the elements an array view shows
Elems(m, a) == SubSeq(m[a.base], a.off + 1, a.off + a.len)

\* a SampleResult with each array replaced by its elements
Contents(m, b) ==
    [k \in DOMAIN b |-> IF k \in ScalarKeys THEN b[k] ELSE Elems(m, b[k])]

---------------------------------------------------------------------------
(* SampleResult.slice and SampleResult.iterslice *)

\* a slice bound of a[start:end] brought into 0 .. len, as numpy does
ClipIndex(i, len) ==
    IF i < 0
    THEN (IF i + len < 0 THEN 0 ELSE i + len)
    ELSE (IF i > len THEN len ELSE i)

\* mutant of ndarray_getslice: the view starts at index start of the buffer
ndarray_getslice_FromBuffer(a, start, end) ==
    [base |-> a.base, off |-> start, len |-> end - start]

\* a[start:end] of a one-dimensional array: a view on the buffer of a
ndarray_getslice(a, start, end) ==
    LET lo == ClipIndex(start, a.len)
        hi == ClipIndex(end, a.len)
    IN  [base |-> a.base, off |-> a.off + lo,
         len |-> IF hi > lo THEN hi - lo ELSE 0]

\* an exception leaving slice
RaiseSlice(exc, msg) == [status |-> exc, msg |-> msg, batch |-> PyNone]

\* mutant of slice: end is not checked against start
slice_NoOrderCheck(self, end, start) ==
    IF start < 0
    THEN RaiseSlice("ValueError", "start must be greater or equal to 0")
    ELSE IF end > self.n_sample
    THEN RaiseSlice("ValueError",
                    "end must be lower or equal to the sample size")
    ELSE
    LET slc_n == end - start
        names == self._problem.val.names
        slc_names == {names[i] : i \in 1 .. Len(names)}
                     \cup {"_" \o names[i] : i \in 1 .. Len(names)}
    IN  [status |-> "ok", msg |-> "",
         batch |->
            [key \in slc_names \cup ScalarKeys |->
                CASE key = "generator" -> self.generator
                  [] key = "n_sample" -> slc_n
                  [] key = "_problem" -> self._problem
                  [] OTHER -> ndarray_getslice(self[key], start, end)]]

\* mutant of slice: the weight arrays are not cut
slice_WholeWeights(self, end, start) ==
    IF end < start
    THEN RaiseSlice("ValueError", "start must be lower than end")
    ELSE IF start < 0
    THEN RaiseSlice("ValueError", "start must be greater or equal to 0")
    ELSE IF end > self.n_sample
    THEN RaiseSlice("ValueError",
                    "end must be lower or equal to the sample size")
    ELSE
    LET slc_n == end - start
        names == self._problem.val.names
        values == {names[i] : i \in 1 .. Len(names)}
        slc_names == values \cup {"_" \o names[i] : i \in 1 .. Len(names)}
    IN  [status |-> "ok", msg |-> "",
         batch |->
            [key \in slc_names \cup ScalarKeys |->
                CASE key = "generator" -> self.generator
                  [] key = "n_sample" -> slc_n
                  [] key = "_problem" -> self._problem
                  [] key \in values -> ndarray_getslice(self[key], start, end)
                  [] OTHER -> self[key]]]

\* mutant of slice: the weight arrays are left out of the slice
slice_ValuesOnly(self, end, start) ==
    IF end < start
    THEN RaiseSlice("ValueError", "start must be lower than end")
    ELSE IF start < 0
    THEN RaiseSlice("ValueError", "start must be greater or equal to 0")
    ELSE IF end > self.n_sample
    THEN RaiseSlice("ValueError",
                    "end must be lower or equal to the sample size")
    ELSE
    LET names == self._problem.val.names
        slc_names == {names[i] : i \in 1 .. Len(names)}
    IN  [status |-> "ok", msg |-> "",
         batch |->
            [key \in slc_names \cup ScalarKeys |->
                CASE key = "generator" -> self.generator
                  [] key = "n_sample" -> end - start
                  [] key = "_problem" -> self._problem
                  [] OTHER -> ndarray_getslice(self[key], start, end)]]

\* mutant of slice: the end index is not checked against the sample size
slice_NoSizeCheck(self, end, start) ==
    IF end < start
    THEN RaiseSlice("ValueError", "start must be lower than end")
    ELSE IF start < 0
    THEN RaiseSlice("ValueError", "start must be greater or equal to 0")
    ELSE
    LET names == self._problem.val.names
        slc_names == {names[i] : i \in 1 .. Len(names)}
                     \cup {"_" \o names[i] : i \in 1 .. Len(names)}
    IN  [status |-> "ok", msg |-> "",
         batch |->
            [key \in slc_names \cup ScalarKeys |->
                CASE key = "generator" -> self.generator
                  [] key = "n_sample" -> end - start
                  [] key = "_problem" -> self._problem
                  [] OTHER -> ndarray_getslice(self[key], start, end)]]

\* self.slice(end, start): the SampleResult returned or the exception raised
slice(self, end, start) ==
    IF end < start
    THEN RaiseSlice("ValueError", "start must be lower than end")
    ELSE IF start < 0
    THEN RaiseSlice("ValueError", "start must be greater or equal to 0")
    ELSE IF end > self.n_sample
    THEN RaiseSlice("ValueError",
                    "end must be lower or equal to the sample size")
    ELSE
    LET slc_n == end - start
        names == self._problem.val.names
        slc_names == {names[i] : i \in 1 .. Len(names)}
                     \cup {"_" \o names[i] : i \in 1 .. Len(names)}
    IN  [status |-> "ok", msg |-> "",
         batch |->
            [key \in slc_names \cup ScalarKeys |->
                CASE key = "generator" -> self.generator
                  [] key = "n_sample" -> slc_n
                  [] key = "_problem" -> self._problem
                  [] OTHER -> ndarray_getslice(self[key], start, end)]]

np_minimum(a, b) == IF a < b THEN a ELSE b

\* mutant of LoopTest: the loop runs while ind_start is not above ind_end
LoopTest_AtMost(ind_start, ind_end) == ind_start <= ind_end

\* mutant of LoopTest: the loop runs while ind_start is below ind_end
LoopTest_Below(ind_start, ind_end) == ind_start < ind_end

\* "while ind_start != ind_end"
LoopTest(ind_start, ind_end) == ind_start # ind_end

\* mutant of NextStart: the next slice starts one past the end of the last
NextStart_Skip(ind_end) == ind_end + 1

\* "ind_start = ind_end"
NextStart(ind_end) == ind_end

\* mutant of NextEnd: the end index is not held back at the sample size
NextEnd_Unclamped(ind_end, by, n_sample) == ind_end + by

\* "ind_end = np.minimum(ind_end + by, self.n_sample)"
NextEnd(ind_end, by, n_sample) == np_minimum(ind_end + by, n_sample)

\* the frame of the generator that self.iterslice(by) returns: no line of
\* the body has run
iterslice(self, by) ==
    [pc |-> "created", self |-> self, by |-> by, ind_start |-> 0,
     ind_end |-> 0]

\* the frame at the loop test, entered from the top of the body or from
\* the yield where it was suspended
AtLoopTest(f) ==
    IF f.pc = "created"
    THEN IF f.by > f.self.n_sample
         THEN [f EXCEPT !.pc = "raised"]
         ELSE [f EXCEPT !.pc = "test", !.ind_start = 0, !.ind_end = f.by]
    ELSE [f EXCEPT !.pc = "test", !.ind_start = NextStart(f.ind_end),
                   !.ind_end = NextEnd(f.ind_end, f.by, f.self.n_sample)]

\* mutant of generator_next: a generator that ended starts again
generator_next_Restart(f) ==
    IF f.pc = "raised"
    THEN [frame |-> f, status |-> "StopIteration", value |-> PyNone]
    ELSE
    LET g == AtLoopTest(IF f.pc = "done" THEN [f EXCEPT !.pc = "created"]
                        ELSE f)
    IN  IF g.pc = "raised"
        THEN [frame |-> g, status |-> "ValueError", value |-> PyNone]
        ELSE IF LoopTest(g.ind_start, g.ind_end)
        THEN LET s == slice(g.self, g.ind_end, g.ind_start)
             IN  IF s.status = "ok"
                 THEN [frame |-> [g EXCEPT !.pc = "suspended"],
                       status |-> "yield", value |-> s.batch]
                 ELSE [frame |-> [g EXCEPT !.pc = "raised"],
                       status |-> s.status, value |-> PyNone]
        ELSE [frame |-> [g EXCEPT !.pc = "done"],
              status |-> "StopIteration", value |-> PyNone]

(* next(g) on the generator with frame f: the body runs to its next yield, *)
(* to its end (StopIteration) or to an exception; a generator that ended   *)
(* or raised only raises StopIteration afterwards.                        *)
generator_next(f) ==
    IF f.pc \in {"done", "raised"}
    THEN [frame |-> f, status |-> "StopIteration", value |-> PyNone]
    ELSE
    LET g == AtLoopTest(f)
    IN  IF g.pc = "raised"
        THEN [frame |-> g, status |-> "ValueError", value |-> PyNone]
        ELSE IF LoopTest(g.ind_start, g.ind_end)
        THEN LET s == slice(g.self, g.ind_end, g.ind_start)
             IN  IF s.status = "ok"
                 THEN [frame |-> [g EXCEPT !.pc = "suspended"],
                       status |-> "yield", value |-> s.batch]
                 ELSE [frame |-> [g EXCEPT !.pc = "raised"],
                       status |-> s.status, value |-> PyNone]
        ELSE [frame |-> [g EXCEPT !.pc = "done"],
              status |-> "StopIteration", value |-> PyNone]

---------------------------------------------------------------------------
(* Writing through an array of a SampleResult *)

(* a[i] = v on an array a: numpy stores v in the buffer a is a view of;    *)
(* a negative index counts from the end and an index outside the array is *)
(* an IndexError                                                           *)
ndarray_setitem(m, a, i, v) ==
    IF i >= a.len \/ i < 0 - a.len
    THEN [status |-> "IndexError", mem |-> m]
    ELSE LET pos == IF i < 0 THEN i + a.len ELSE i
         IN  [status |-> "ok",
              mem |-> [m EXCEPT ![a.base][a.off + pos + 1] = v]]

---------------------------------------------------------------------------
(* The problem dictionary as Python objects: a dict and the lists it holds *)
(* are objects of the heap, a sequence indexed by address; an item of a   *)
(* dict is a reference to a list or an immediate value                     *)

Ref(a) == [ref |-> a]
Imm(v) == [imm |-> v]

\* the address of the next object allocated
NewAddress(h) == Len(h) + 1

\* the objects of a problem dictionary written as a literal: its names
\* list, its bounds list and the dict itself, which is the last of them
NewProblem(h, problem) ==
    h \o <<PyList(problem.val.names),
           PyList(problem.val.bounds),
           PyDict([num_vars |-> Imm(problem.val.num_vars),
                   names |-> Ref(Len(h) + 1),
                   bounds |-> Ref(Len(h) + 2)])>>

\* d.copy(): a new dict, the last object of the heap returned, holding the
\* items of d: the same references and immediates
dict_copy(h, d) == Append(h, PyDict(h[d].val))

\* d[key] = value
dict_setitem(h, d, key, value) == [h EXCEPT ![d].val = SetItem(@, key, value)]

\* l[i] = value, i an index of l
list_setitem(h, l, i, value) == [h EXCEPT ![l].val[i + 1] = value]

\* the dictionary at address d as a value, its lists read through
Problem(h, d) ==
    PyDict([k \in DOMAIN h[d].val |->
                IF "ref" \in DOMAIN h[d].val[k]
                THEN h[h[d].val[k].ref].val
                ELSE h[d].val[k].imm])

\* a SampleResult whose _problem is a reference, with the dictionary read
\* through
Deref(h, b) == [b EXCEPT !._problem = Problem(h, b._problem.ref)]

---------------------------------------------------------------------------
(* SampleResult.to_numpy and SampleResult.to_dataframe *)

\* the value array of each name of self._problem["names"], in that order
NamedArrays(m, self) ==
    [j \in 1 .. Len(self._problem.val.names) |->
        Elems(m, self[self._problem.val.names[j]])]

(* self.to_numpy(axis): np.stack of the value arrays builds a new array,   *)
(* one row per variable for axis 0 and one column per variable for axis   *)
(* 1 or -1; no array to stack or an axis out of range is an error         *)
to_numpy(m, self, axis) ==
    LET arrays == NamedArrays(m, self)
    IN  IF Len(arrays) = 0
        THEN [status |-> "ValueError", value |-> PyNone]
        ELSE IF axis \in {0, -2}
        THEN [status |-> "ok", value |-> arrays]
        ELSE IF axis \in {1, -1}
        THEN [status |-> "ok",
              value |-> [i \in 1 .. self.n_sample |->
                            [j \in 1 .. Len(arrays) |-> arrays[j][i]]]]
        ELSE [status |-> "AxisError", value |-> PyNone]

\* self.to_dataframe(): a new DataFrame, one column per variable
to_dataframe(m, self) ==
    [status |-> "ok",
     value |-> [j \in 1 .. Len(self._problem.val.names) |->
                    [column |-> self._problem.val.names[j],
                     values |-> NamedArrays(m, self)[j]]]]

---------------------------------------------------------------------------
(* The optimizers of smash/factory/net/_optimizers.py                      *)
(*                                                                         *)
(* An option dictionary (the keywords of the call) is the sequence of its   *)
(* items <<key, value>>.  A tensor is a one-dimensional array, a sequence  *)
(* of rationals whose shape is its length.                                 *)

OptimizerNames == {"sgd", "adam", "adagrad", "rmsprop"}

\* the keyword parameters each __init__ declares before unknown_options
InitParameters(name) ==
    CASE name = "sgd" -> {"learning_rate", "momentum"}
      [] name = "adam" -> {"learning_rate", "b1", "b2"}
      [] name = "adagrad" -> {"learning_rate"}
      [] name = "rmsprop" -> {"learning_rate", "rho"}

\* the default values of the keyword parameters
InitDefaults(name) ==
    CASE name = "sgd" -> [learning_rate |-> Rat(1, 100), momentum |-> RInt(0)]
      [] name = "adam" -> [learning_rate |-> Rat(1, 1000), b1 |-> Rat(9, 10),
                           b2 |-> Rat(999, 1000)]
      [] name = "adagrad" -> [learning_rate |-> Rat(1, 100)]
      [] name = "rmsprop" -> [learning_rate |-> Rat(1, 1000),
                              rho |-> Rat(9, 10)]

\* self.eps = 1e-8
DefaultEps == Rat(1, 100000000)

OptionKeys(options) == {options[i][1] : i \in 1 .. Len(options)}

\* the value the call binds to keyword parameter key
BoundValue(name, options, key) ==
    IF key \in OptionKeys(options)
    THEN LET i == CHOOSE j \in 1 .. Len(options) : options[j][1] = key
         IN  options[i][2]
    ELSE InitDefaults(name)[key]

\* mutant of UnknownOptions: eps is taken for a keyword the optimizer knows
UnknownOptions_EpsKnown(name, options) ==
    LET known[i \in 0 .. Len(options)] ==
            IF i = 0 THEN <<>>
            ELSE IF options[i][1] \in InitParameters(name) \cup {"eps"}
            THEN known[i - 1]
            ELSE Append(known[i - 1], options[i])
    IN  known[Len(options)]

\* unknown_options: the items no keyword parameter takes, in call order
UnknownOptions(name, options) ==
    LET rest[i \in 0 .. Len(options)] ==
            IF i = 0 THEN <<>>
            ELSE IF options[i][1] \in InitParameters(name)
            THEN rest[i - 1]
            ELSE Append(rest[i - 1], options[i])
    IN  rest[Len(options)]

\* mutant of _check_unknown_options: the message names the first key only
_check_unknown_options_FirstKey(unknown_options) ==
    IF unknown_options # <<>>
    THEN [status |-> "KeyError", msg |-> <<unknown_options[1][1]>>]
    ELSE [status |-> "ok", msg |-> <<>>]

\* _check_unknown_options: msg is the sequence of keys that ", ".join joins
_check_unknown_options(unknown_options) ==
    IF unknown_options # <<>>
    THEN [status |-> "KeyError",
          msg |-> [i \in 1 .. Len(unknown_options) |-> unknown_options[i][1]]]
    ELSE [status |-> "ok", msg |-> <<>>]

\* the attributes __init__ sets on a new instance of optimizer name
NewOptimizer(name, options) ==
    CASE name = "sgd" ->
            [name |-> name,
             learning_rate |-> BoundValue(name, options, "learning_rate"),
             momentum |-> BoundValue(name, options, "momentum"),
             w_updt |-> PyNone]
      [] name = "adam" ->
            [name |-> name,
             learning_rate |-> BoundValue(name, options, "learning_rate"),
             eps |-> DefaultEps, m |-> PyNone, v |-> PyNone,
             b1 |-> BoundValue(name, options, "b1"),
             b2 |-> BoundValue(name, options, "b2")]
      [] name = "adagrad" ->
            [name |-> name,
             learning_rate |-> BoundValue(name, options, "learning_rate"),
             G |-> PyNone, eps |-> DefaultEps]
      [] name = "rmsprop" ->
            [name |-> name,
             learning_rate |-> BoundValue(name, options, "learning_rate"),
             Eg |-> PyNone, eps |-> DefaultEps,
             rho |-> BoundValue(name, options, "rho")]

\* name(learning_rate=..., ...): the instance constructed or the exception
optimizer_init(name, options) ==
    LET chk == _check_unknown_options(UnknownOptions(name, options))
    IN  IF chk.status # "ok"
        THEN [status |-> chk.status, msg |-> chk.msg, self |-> PyNone]
        ELSE [status |-> "ok", msg |-> <<>>,
              self |-> NewOptimizer(name, options)]

---------------------------------------------------------------------------
(* Tensor arithmetic of numpy on one-dimensional arrays *)

np_shape(a) == Len(a)

np_zeros(shape) == [k \in 1 .. shape |-> RInt(0)]

\* two shapes numpy broadcasts together: equal, or one of them is 1
Broadcasts(a, b) == Len(a) = Len(b) \/ Len(a) = 1 \/ Len(b) = 1

\* the shape of the broadcast of a and b
BroadcastShape(a, b) == IF Len(a) >= Len(b) THEN Len(a) ELSE Len(b)

\* element k of a stretched to a broadcast shape
Stretch(a, k) == IF Len(a) = 1 THEN a[1] ELSE a[k]

\* c * a for a scalar c
Scale(c, a) == [k \in 1 .. Len(a) |-> RMul(c, a[k])]

\* a + b and a - b
TAdd(a, b) ==
    [k \in 1 .. BroadcastShape(a, b) |-> RAdd(Stretch(a, k), Stretch(b, k))]

TSub(a, b) ==
    [k \in 1 .. BroadcastShape(a, b) |-> RSub(Stretch(a, k), Stretch(b, k))]

\* np.power(a, 2)
np_power2(a) == [k \in 1 .. Len(a) |-> RMul(a[k], a[k])]

(* numer / (np.sqrt(root + eps_in) + eps_out): the square root has no      *)
(* rational value in general, so the quotient is kept as the expression   *)
(* of its operands                                                        *)
SqrtQuotient(numer, root, eps_in, eps_out) ==
    [k \in 1 .. BroadcastShape(numer, root) |->
        [numer |-> Stretch(numer, k), root |-> Stretch(root, k),
         eps_in |-> eps_in, eps_out |-> eps_out]]

\* w - q for a tensor q of such quotients
MinusQuotient(w, q) ==
    [k \in 1 .. BroadcastShape(w, q) |->
        [w |-> Stretch(w, k), numer |-> Stretch(q, k).numer,
         root |-> Stretch(q, k).root, eps_in |-> Stretch(q, k).eps_in,
         eps_out |-> Stretch(q, k).eps_out]]

\* "operands could not be broadcast together": update ends, self as it is
RaiseUpdate(self) == [status |-> "ValueError", self |-> self, result |-> PyNone]

Return(self, result) == [status |-> "ok", self |-> self, result |-> result]

---------------------------------------------------------------------------
(* update(self, w, grad_wrt_w) of each optimizer: self after the call and  *)
(* the tensor returned, or the exception and self as the call left it      *)

\* an attribute that holds an array, told from one that holds None
ndarray(a) == [type |-> "ndarray", val |-> a]

\* mutant of sgd_update: the momentum term is left out of the new w_updt
sgd_update_NoMomentum(self, w, grad_wrt_w) ==
    LET s1 == IF self.w_updt = PyNone
              THEN [self EXCEPT !.w_updt = ndarray(np_zeros(np_shape(w)))]
              ELSE self
    IN  IF ~ Broadcasts(s1.w_updt.val, grad_wrt_w)
        THEN RaiseUpdate(s1)
        ELSE
        LET s2 == [s1 EXCEPT !.w_updt = ndarray(
                      TAdd(Scale(RInt(0), s1.w_updt.val),
                           Scale(RSub(RInt(1), s1.momentum), grad_wrt_w)))]
        IN  IF ~ Broadcasts(w, s2.w_updt.val)
            THEN RaiseUpdate(s2)
            ELSE Return(s2, TSub(w, Scale(s2.learning_rate, s2.w_updt.val)))

sgd_update(self, w, grad_wrt_w) ==
    LET s1 == IF self.w_updt = PyNone
              THEN [self EXCEPT !.w_updt = ndarray(np_zeros(np_shape(w)))]
              ELSE self
    IN  IF ~ Broadcasts(s1.w_updt.val, grad_wrt_w)
        THEN RaiseUpdate(s1)
        ELSE
        LET s2 == [s1 EXCEPT !.w_updt = ndarray(
                      TAdd(Scale(s1.momentum, s1.w_updt.val),
                           Scale(RSub(RInt(1), s1.momentum), grad_wrt_w)))]
        IN  IF ~ Broadcasts(w, s2.w_updt.val)
            THEN RaiseUpdate(s2)
            ELSE Return(s2, TSub(w, Scale(s2.learning_rate, s2.w_updt.val)))

\* self.w_updt = value on an adam instance, which has no such attribute
\* before its first update
SetWUpdt(self, value) ==
    [a \in (DOMAIN self) \cup {"w_updt"} |->
        IF a = "w_updt" THEN value ELSE self[a]]

\* mutant of adam_update: the moments are allocated anew at every call
adam_update_FreshMoments(self, w, grad_wrt_w) ==
    LET s1 == [self EXCEPT !.m = ndarray(np_zeros(np_shape(grad_wrt_w))),
                           !.v = ndarray(np_zeros(np_shape(grad_wrt_w)))]
        s2 == [s1 EXCEPT !.m = ndarray(
                  TAdd(Scale(s1.b1, s1.m.val),
                       Scale(RSub(RInt(1), s1.b1), grad_wrt_w)))]
        s3 == [s2 EXCEPT !.v = ndarray(
                  TAdd(Scale(s2.b2, s2.v.val),
                       Scale(RSub(RInt(1), s2.b2), np_power2(grad_wrt_w))))]
        m_hat == Scale(RDiv(RInt(1), RSub(RInt(1), s3.b1)), s3.m.val)
        v_hat == Scale(RDiv(RInt(1), RSub(RInt(1), s3.b2)), s3.v.val)
        s4 == SetWUpdt(s3, ndarray(
                SqrtQuotient(Scale(s3.learning_rate, m_hat), v_hat,
                             RInt(0), s3.eps)))
    IN  IF ~ Broadcasts(w, s4.w_updt.val)
        THEN RaiseUpdate(s4)
        ELSE Return(s4, MinusQuotient(w, s4.w_updt.val))

adam_update(self, w, grad_wrt_w) ==
    LET s1 == IF self.m = PyNone
              THEN [self EXCEPT
                      !.m = ndarray(np_zeros(np_shape(grad_wrt_w))),
                      !.v = ndarray(np_zeros(np_shape(grad_wrt_w)))]
              ELSE self
    IN  IF ~ Broadcasts(s1.m.val, grad_wrt_w)
        THEN RaiseUpdate(s1)
        ELSE
        LET s2 == [s1 EXCEPT !.m = ndarray(
                      TAdd(Scale(s1.b1, s1.m.val),
                           Scale(RSub(RInt(1), s1.b1), grad_wrt_w)))]
        IN  IF ~ Broadcasts(s2.v.val, grad_wrt_w)
            THEN RaiseUpdate(s2)
            ELSE
            LET s3 == [s2 EXCEPT !.v = ndarray(
                          TAdd(Scale(s2.b2, s2.v.val),
                               Scale(RSub(RInt(1), s2.b2),
                                     np_power2(grad_wrt_w))))]
                m_hat == Scale(RDiv(RInt(1), RSub(RInt(1), s3.b1)), s3.m.val)
                v_hat == Scale(RDiv(RInt(1), RSub(RInt(1), s3.b2)), s3.v.val)
                s4 == SetWUpdt(s3, ndarray(
                        SqrtQuotient(Scale(s3.learning_rate, m_hat), v_hat,
                                     RInt(0), s3.eps)))
            IN  IF ~ Broadcasts(w, s4.w_updt.val)
                THEN RaiseUpdate(s4)
                ELSE Return(s4, MinusQuotient(w, s4.w_updt.val))

(* "self.G += ..." adds in place: the sum must have the shape of G *)
\* mutant of adagrad_update: the gradient is added to G without squaring
adagrad_update_NoSquare(self, w, grad_wrt_w) ==
    LET s1 == IF self.G = PyNone
              THEN [self EXCEPT !.G = ndarray(np_zeros(np_shape(w)))]
              ELSE self
    IN  IF ~ (Len(grad_wrt_w) = Len(s1.G.val) \/ Len(grad_wrt_w) = 1)
        THEN RaiseUpdate(s1)
        ELSE
        LET s2 == [s1 EXCEPT !.G = ndarray(TAdd(s1.G.val, grad_wrt_w))]
            q == SqrtQuotient(Scale(s2.learning_rate, grad_wrt_w), s2.G.val,
                              s2.eps, RInt(0))
        IN  IF ~ Broadcasts(w, q)
            THEN RaiseUpdate(s2)
            ELSE Return(s2, MinusQuotient(w, q))

adagrad_update(self, w, grad_wrt_w) ==
    LET s1 == IF self.G = PyNone
              THEN [self EXCEPT !.G = ndarray(np_zeros(np_shape(w)))]
              ELSE self
    IN  IF ~ (Len(grad_wrt_w) = Len(s1.G.val) \/ Len(grad_wrt_w) = 1)
        THEN RaiseUpdate(s1)
        ELSE
        LET s2 == [s1 EXCEPT !.G = ndarray(
                        TAdd(s1.G.val, np_power2(grad_wrt_w)))]
            q == SqrtQuotient(Scale(s2.learning_rate, grad_wrt_w), s2.G.val,
                              s2.eps, RInt(0))
        IN  IF ~ Broadcasts(w, q)
            THEN RaiseUpdate(s2)
            ELSE Return(s2, MinusQuotient(w, q))

rmsprop_update(self, w, grad_wrt_w) ==
    LET s1 == IF self.Eg = PyNone
              THEN [self EXCEPT
                      !.Eg = ndarray(np_zeros(np_shape(grad_wrt_w)))]
              ELSE self
    IN  IF ~ Broadcasts(s1.Eg.val, grad_wrt_w)
        THEN RaiseUpdate(s1)
        ELSE
        LET s2 == [s1 EXCEPT !.Eg = ndarray(
                      TAdd(Scale(s1.rho, s1.Eg.val),
                           Scale(RSub(RInt(1), s1.rho),
                                 np_power2(grad_wrt_w))))]
            q == SqrtQuotient(Scale(s2.learning_rate, grad_wrt_w), s2.Eg.val,
                              s2.eps, RInt(0))
        IN  IF ~ Broadcasts(w, q)
            THEN RaiseUpdate(s2)
            ELSE Return(s2, MinusQuotient(w, q))

\* self.update(w, grad_wrt_w), dispatched on the class of self
update(self, w, grad_wrt_w) ==
    CASE self.name = "sgd" -> sgd_update(self, w, grad_wrt_w)
      [] self.name = "adam" -> adam_update(self, w, grad_wrt_w)
      [] self.name = "adagrad" -> adagrad_update(self, w, grad_wrt_w)
      [] self.name = "rmsprop" -> rmsprop_update(self, w, grad_wrt_w)

---------------------------------------------------------------------------
(* update on arrays that are objects: the heap is a sequence of arrays     *)
(* indexed by address, the caller's w and grad_wrt_w are addresses, and    *)
(* an attribute of an instance that holds an array holds its address       *)

\* the attributes update assigns arrays to, in the order it assigns them
ArrayAttributes(name) ==
    CASE name = "sgd" -> <<"w_updt">>
      [] name = "adam" -> <<"m", "v", "w_updt">>
      [] name = "adagrad" -> <<"G">>
      [] name = "rmsprop" -> <<"Eg">>

\* attribute attr of the instance holds an array
Holds(name, self, attr) ==
    /\ \E i \in 1 .. Len(ArrayAttributes(name)) : ArrayAttributes(name)[i] = attr
    /\ attr \in DOMAIN self
    /\ self[attr] # PyNone

\* the attribute is assigned with an in-place operator: "self.G += ..."
\* writes into the array G refers to, every other assignment binds the
\* attribute to the new array its right-hand side makes
InPlace(name, attr) == name = "adagrad" /\ attr = "G"

\* the instance with the arrays its attributes refer to
Load(h, self) ==
    [a \in DOMAIN self |->
        IF Holds(self.name, self, a) THEN ndarray(h[self[a].ref]) ELSE self[a]]

\* the cell that receives the array of attribute number i: the array the
\* attribute refers to when the assignment is in place, and a new array, at
\* the i-th address after those of h, otherwise (np.zeros or the value of
\* the right-hand side)
AccumulatorCell(h, self, i) ==
    LET attr == ArrayAttributes(self.name)[i]
    IN  IF InPlace(self.name, attr) /\ Holds(self.name, self, attr)
        THEN self[attr].ref
        ELSE Len(h) + i

\* mutant of ResultCell: "w -= ..." writes the result into the caller's w
ResultCell_InPlace(h, self, w) == w

\* the cell of the tensor update returns: "w - ..." makes a new array, past
\* the cells of this call's accumulators
ResultCell(h, self, w) == Len(h) + Len(ArrayAttributes(self.name)) + 1

(* self.update(w, grad_wrt_w) on the heap h: the heap and the instance     *)
(* the call leaves and the address of the tensor it returns.  An          *)
(* attribute is stored when the call assigned it: every one when the call *)
(* returns, those whose array changed when it raises.  A cell this call   *)
(* allocates and binds to nothing is an array of no element.              *)
update_on_heap(h, self, w, grad_wrt_w) ==
    LET name == self.name
        attrs == ArrayAttributes(name)
        rc == ResultCell(h, self, w)
        cell(i) == AccumulatorCell(h, self, i)
        leave(old, out) ==
            LET assigned(i) ==
                    /\ Holds(name, out.self, attrs[i])
                    /\ \/ out.status = "ok"
                       \/ ~ Holds(name, self, attrs[i])
                       \/ out.self[attrs[i]] # old[attrs[i]]
                written(a) ==
                    {i \in 1 .. Len(attrs) : assigned(i) /\ cell(i) = a}
                last == IF out.status = "ok" /\ rc > Len(h) + Len(attrs)
                        THEN rc
                        ELSE Len(h) + Len(attrs)
            IN  [status |-> out.status,
                 heap |-> [a \in 1 .. last |->
                    IF out.status = "ok" /\ a = rc
                    THEN out.result
                    ELSE IF written(a) # {}
                    THEN out.self[attrs[CHOOSE i \in written(a) : TRUE]].val
                    ELSE IF a <= Len(h) THEN h[a] ELSE <<>>],
                 self |-> [a \in DOMAIN out.self |->
                    IF Holds(name, out.self, a)
                    THEN LET i == CHOOSE j \in 1 .. Len(attrs) : attrs[j] = a
                         IN  IF assigned(i) THEN Ref(cell(i)) ELSE self[a]
                    ELSE out.self[a]],
                 result |-> IF out.status = "ok" THEN rc ELSE PyNone]
    IN  CHOOSE r \in {leave(old, out) :
                        old \in {Load(h, self)},
                        out \in {update(Load(h, self), h[w],
                                         h[grad_wrt_w])}} : TRUE

---------------------------------------------------------------------------
(* Inputs the callers are given to choose from *)

ProblemCpLr ==
    PyDict([num_vars |-> 2, names |-> <<"cp", "lr">>,
            bounds |-> <<<<1, 3>>, <<-2, 4>>>>])

ProblemExtraKey ==
    PyDict([num_vars |-> 1, names |-> <<"cp">>, bounds |-> <<<<1, 3>>>>,
            dists |-> <<"unif">>])

ProblemNoBounds == PyDict([num_vars |-> 1, names |-> <<"cp">>])

ValidProblems == {ProblemCpLr, ProblemExtraKey}

ProblemInputs ==
    ValidProblems \cup {ProblemNoBounds, PyNone, PyList(<<"cp", "lr">>)}

\* problems that have the three required keys and break the invariant of a
\* problem: a name twice, a num_vars that is not the number of names, a
\* pair with low above high, more bounds than names
ProblemDupNames ==
    PyDict([num_vars |-> 2, names |-> <<"cp", "cp">>,
            bounds |-> <<<<1, 3>>, <<-2, 4>>>>])

ProblemWrongCount ==
    PyDict([num_vars |-> 3, names |-> <<"cp", "lr">>,
            bounds |-> <<<<1, 3>>, <<-2, 4>>>>])

ProblemReversed ==
    PyDict([num_vars |-> 1, names |-> <<"cp">>, bounds |-> <<<<3, 1>>>>])

ProblemLongBounds ==
    PyDict([num_vars |-> 1, names |-> <<"cp">>,
            bounds |-> <<<<1, 3>>, <<-2, 4>>>>])

MalformedProblems ==
    {ProblemDupNames, ProblemWrongCount, ProblemReversed, ProblemLongBounds}

RandomStateInputs == {PyNone} \cup {PyInt(s) : s \in 0 .. MaxSeed}

\* a mean dictionary is the sequence of its items
MeanInputs ==
    {PyNone, PyDict(<< <<"lr", PyInt(3)>> >>),
     PyDict(<< <<"kexc", PyInt(0)>>, <<"cp", PyInt(4)>> >>)}

CoefStdInputs == {PyNone, PyInt(2)}

Args(problem, generator, n, random_state, mean, coef_std) ==
    [problem |-> problem, generator |-> generator, n |-> n,
     random_state |-> random_state, mean |-> mean, coef_std |-> coef_std]

\* calls with the uniform generator, which reads neither mean nor coef_std
UniformCalls ==
    {Args(p, PyStr("uniform"), n, rs, PyNone, PyNone) :
        p \in ValidProblems, n \in 0 .. MaxN, rs \in RandomStateInputs}

\* calls with the normal generator under either of its names
NormalCalls ==
    {Args(ProblemCpLr, PyStr(g), n, rs, m, c) :
        g \in {"NORMAL", "gaussian"}, n \in 0 .. MaxN,
        rs \in RandomStateInputs, m \in MeanInputs, c \in CoefStdInputs}

\* calls that probe the validation of problem and generator
ProbingCalls ==
    {Args(p, PyStr(g), 1, rs, PyNone, PyNone) :
        p \in ProblemInputs, g \in {"uniform", "sobol"},
        rs \in {PyNone, PyInt(0)}}

\* calls with a problem that is well formed or malformed
MalformedCalls ==
    {Args(p, PyStr("uniform"), n, rs, PyNone, PyNone) :
        p \in MalformedProblems \cup {ProblemCpLr, ProblemNoBounds},
        n \in 0 .. MaxN, rs \in RandomStateInputs}

\* mean arguments of every kind: none, no dictionary, a dictionary with a
\* value that is no number, with None for a value, with a name the problem
\* does not have, and a dictionary of numbers for names of the problem
MeanOfEveryKind ==
    {PyNone, PyInt(3),
     PyDict(<< <<"cp", PyStr("2")>> >>),
     PyDict(<< <<"lr", PyNone>> >>),
     PyDict(<< <<"kexc", PyInt(0)>> >>),
     PyDict(<< <<"cp", PyInt(2)>> >>)}

CoefStdOfEveryKind == {PyNone, PyInt(2), PyStr("3")}

\* calls that probe the validation of mean and coef_std
ArgumentCalls ==
    {Args(ProblemCpLr, PyStr(g), 1, rs, m, c) :
        g \in {"uniform", "normal"}, rs \in {PyNone, PyInt(0)},
        m \in MeanOfEveryKind, c \in CoefStdOfEveryKind}

\* the calls of the sampling specification: every one of them is accepted
SamplingCalls == UniformCalls \cup NormalCalls

\* the setup of the Model whose methods standardise a problem
ModelSetup ==
    [parameters |-> <<"cp", "lr">>, states |-> <<"hp">>,
     lb |-> [cp |-> 1, lr |-> -2, hp |-> 0],
     ub |-> [cp |-> 3, lr |-> 4, hp |-> 1]]

---------------------------------------------------------------------------
(* The sampler: successive calls by one thread *)

NoCall == [op |-> "none", status |-> "none"]
NoSlice == [status |-> "none"]
NoIter == [pc |-> "none"]

Init ==
    /\ np_random \in RngStates
    /\ mem = <<>>
    /\ sr = PyNone
    /\ call = NoCall
    /\ slc = NoSlice
    /\ it = NoIter
    /\ yielded = <<>>
    /\ th = <<>>
    /\ opt = <<>>
    /\ heap = <<>>

(* sr = generate_samples(problem, generator, n, random_state, mean,        *)
(* coef_std): on an error the caller's sr keeps its value.                 *)
GenerateSamples(inputs) ==
    \E a \in inputs :
        \E out \in {generate_samples(a.problem, a.generator, a.n, a.random_state,
                                     a.mean, a.coef_std, np_random)} :
            /\ np_random' = out.rng
            /\ call' = [op |-> "generate_samples", args |-> a,
                        status |-> out.status, warnings |-> out.warnings]
            /\ IF out.status = "ok"
               THEN /\ mem' = NewBuffers(out.ret)
                    /\ sr' = SampleResult(out.ret)
               ELSE UNCHANGED <<mem, sr>>
            /\ UNCHANGED <<slc, it, yielded, th, opt, heap>>

(* Model.signatures_sensitivity(problem, ...) up to                        *)
(* "problem = _standardize_problem(problem, instance.setup, False)"; the   *)
(* sensitivity analysis that follows belongs to the solver.                *)
SignaturesSensitivity ==
    \E problem \in ProblemInputs :
        \E out \in {_standardize_problem(problem, ModelSetup, FALSE)} :
            /\ call' = [op |-> "signatures_sensitivity",
                        args |-> [problem |-> problem],
                        status |-> out.status, warnings |-> out.warnings,
                        result |-> out.problem]
            /\ UNCHANGED <<np_random, mem, sr, slc, it, yielded, th, opt, heap>>

Next == GenerateSamples(SamplingCalls)

Spec == Init /\ [][Next]_vars

\* generate_samples given problems of every shape
NextMalformed == GenerateSamples(MalformedCalls)

SpecMalformed == Init /\ [][NextMalformed]_vars

\* generate_samples given mean and coef_std of every kind
NextArguments == GenerateSamples(ArgumentCalls)

SpecArguments == Init /\ [][NextArguments]_vars

\* validation at the boundary of the public calls
NextValidate == GenerateSamples(ProbingCalls) \/ SignaturesSensitivity

SpecValidate == Init /\ [][NextValidate]_vars

---------------------------------------------------------------------------
(* A batch and the slices taken of it *)

\* the calls whose batch is sliced and iterated
BatchCalls ==
    {Args(ProblemCpLr, PyStr(g), n, PyInt(0), PyNone, PyNone) :
        g \in {"uniform", "NORMAL"}, n \in 0 .. MaxLen}

\* the arguments slice and iterslice are given for a batch of n sets
IndexInputs(n) == -1 .. (n + 1)

\* sr = generate_samples(...) has returned
InitBatch ==
    \E a \in BatchCalls :
        \E out \in {generate_samples(a.problem, a.generator, a.n,
                                     a.random_state, a.mean, a.coef_std, 0)} :
            /\ np_random = out.rng
            /\ mem = NewBuffers(out.ret)
            /\ sr = SampleResult(out.ret)
            /\ call = [op |-> "generate_samples", args |-> a,
                       status |-> out.status, warnings |-> out.warnings]
            /\ slc = NoSlice
            /\ it = NoIter
            /\ yielded = <<>>
            /\ th = <<>>
            /\ opt = <<>>
            /\ heap = <<>>

(* slc = sr.slice(end, start); source is the content of sr at the call *)
Slice ==
    \E end \in IndexInputs(sr.n_sample), start \in IndexInputs(sr.n_sample) :
        \E out \in {slice(sr, end, start)} :
            /\ slc' = [status |-> out.status, msg |-> out.msg,
                       end |-> end, start |-> start, batch |-> out.batch,
                       source |-> Contents(mem, sr)]
            /\ UNCHANGED <<np_random, mem, sr, call, it, yielded, th, opt, heap>>

(* sr = slc: the slice is the batch that is sliced from now on *)
Narrow ==
    /\ slc.status = "ok"
    /\ sr' = slc.batch
    /\ slc' = NoSlice
    /\ UNCHANGED <<np_random, mem, call, it, yielded, th, opt, heap>>

NextSlice == Slice \/ Narrow

SpecSlice == InitBatch /\ [][NextSlice]_vars

(* it = sr.iterslice(by): a generator is made, nothing of its body runs *)
IterSlice ==
    \E by \in IndexInputs(sr.n_sample) :
        /\ it' = iterslice(sr, by)
        /\ yielded' = <<>>
        /\ UNCHANGED <<np_random, mem, sr, call, slc, th, opt, heap>>

(* next(it): a yielded slice is appended to the slices received so far *)
IterNext ==
    /\ it.pc \in {"created", "suspended"}
    /\ \E out \in {generator_next(it)} :
            /\ it' = out.frame
            /\ yielded' = IF out.status = "yield"
                          THEN Append(yielded, out.value)
                          ELSE yielded
            /\ call' = [op |-> "next", args |-> call.args,
                        status |-> out.status, warnings |-> call.warnings]
    /\ UNCHANGED <<np_random, mem, sr, slc, th, opt, heap>>

(* sr = yielded[j]: a received slice is iterated in its turn *)
Descend ==
    \E j \in 1 .. Len(yielded) :
        /\ sr' = yielded[j]
        /\ UNCHANGED <<np_random, mem, call, slc, it, yielded, th, opt, heap>>

NextIter == IterSlice \/ IterNext \/ Descend

SpecIter == InitBatch /\ [][NextIter]_vars

(* sr.to_numpy(axis) and sr.to_dataframe(): value is what the call returns *)
ToNumpy ==
    \E axis \in {0, 1, -1, 2} :
        \E out \in {to_numpy(mem, sr, axis)} :
            /\ call' = [op |-> "to_numpy", args |-> call.args,
                        status |-> out.status, warnings |-> call.warnings,
                        axis |-> axis, value |-> out.value]
            /\ UNCHANGED <<np_random, mem, sr, slc, it, yielded, th, opt, heap>>

ToDataframe ==
    \E out \in {to_dataframe(mem, sr)} :
        /\ call' = [op |-> "to_dataframe", args |-> call.args,
                    status |-> out.status, warnings |-> call.warnings,
                    value |-> out.value]
        /\ UNCHANGED <<np_random, mem, sr, slc, it, yielded, th, opt, heap>>

\* every method of a batch, called in any order
NextRead == Slice \/ IterSlice \/ IterNext \/ ToNumpy \/ ToDataframe

\* the batches the caller holds: sr, the last slice and the yielded slices
Handles ==
    <<sr>> \o (IF slc.status = "ok" THEN <<slc.batch>> ELSE <<>>) \o yielded

\* the values a caller overwrites an element with
WriteInputs == {RInt(0), RInt(1)}

(* b[key][index] = value on one of the batches held; before is what every *)
(* batch held showed when the statement began                             *)
WriteElement ==
    \E t \in 1 .. Len(Handles) :
        \E key \in ArrayKeys(Handles[t]), value \in WriteInputs,
           index \in -1 .. Handles[t].n_sample :
            \E out \in {ndarray_setitem(mem, Handles[t][key], index, value)} :
                /\ mem' = out.mem
                /\ call' = [op |-> "setitem", args |-> call.args,
                            status |-> out.status, warnings |-> call.warnings,
                            target |-> t, key |-> key, index |-> index,
                            value |-> value,
                            before |-> [j \in 1 .. Len(Handles) |->
                                            Contents(mem, Handles[j])]]
                /\ UNCHANGED <<np_random, sr, slc, it, yielded, th, opt, heap>>

\* slices are taken of a batch until one element of one of them is written
NextWrite ==
    \/ call.op # "setitem" /\ (Slice \/ IterSlice \/ IterNext)
    \/ call.op # "setitem" /\ WriteElement

\* calls with each problem generate_samples accepts
AcceptedCalls ==
    {a \in BatchCalls : a.n <= MaxN}
        \cup {Args(ProblemExtraKey, PyStr("uniform"), n, PyInt(0), PyNone,
                   PyNone) : n \in 0 .. MaxN}

\* sr = generate_samples(...) has returned for an accepted problem
InitAccepted ==
    \E a \in AcceptedCalls :
        \E out \in {generate_samples(a.problem, a.generator, a.n,
                                     a.random_state, a.mean, a.coef_std, 0)} :
            /\ np_random = out.rng
            /\ mem = NewBuffers(out.ret)
            /\ sr = SampleResult(out.ret)
            /\ call = [op |-> "generate_samples", args |-> a,
                       status |-> out.status, warnings |-> out.warnings]
            /\ slc = NoSlice
            /\ it = NoIter
            /\ yielded = <<>>
            /\ th = <<>>
            /\ opt = <<>>
            /\ heap = <<>>

\* slices of slices: every batch obtained is sliced and iterated in turn
NextBatch == Slice \/ Narrow \/ IterSlice \/ IterNext \/ Descend

SpecBatch == InitAccepted /\ [][NextBatch]_vars

(* The caller's problem dictionary, the batch made from it and a slice *)

\* problem = {...}: the caller builds the dictionary
InitProblem ==
    /\ np_random = 0
    /\ mem = <<>>
    /\ sr = PyNone
    /\ heap = NewProblem(<<>>, ProblemCpLr)
    /\ call = [op |-> "problem", problem |-> Len(heap)]
    /\ slc = NoSlice
    /\ it = NoIter
    /\ yielded = <<>>
    /\ th = <<>>
    /\ opt = <<>>

(* sr = generate_samples(problem, ...): ret_dict["_problem"] is             *)
(* problem.copy()                                                          *)
GenerateCopy ==
    /\ sr = PyNone
    /\ \E generator \in {"uniform", "NORMAL"}, n \in 0 .. MaxN :
        \E out \in {generate_samples(Problem(heap, call.problem),
                                     PyStr(generator), n, PyInt(0), PyNone,
                                     PyNone, np_random)} :
            /\ out.status = "ok"
            /\ heap' = dict_copy(heap, call.problem)
            /\ sr' = [SampleResult(out.ret) EXCEPT
                            !._problem = Ref(NewAddress(heap))]
            /\ mem' = NewBuffers(out.ret)
            /\ np_random' = out.rng
            /\ call' = [op |-> "generate_samples", problem |-> call.problem]
            /\ UNCHANGED <<slc, it, yielded, th, opt>>

(* slc = sr.slice(end, start): slc_dict["_problem"] is                     *)
(* self._problem.copy()                                                    *)
SliceCopy ==
    /\ sr # PyNone
    /\ slc.status # "ok"
    /\ \E end \in IndexInputs(sr.n_sample), start \in IndexInputs(sr.n_sample) :
        \E out \in {slice(Deref(heap, sr), end, start)} :
            /\ heap' = IF out.status = "ok"
                       THEN dict_copy(heap, sr._problem.ref)
                       ELSE heap
            /\ slc' = [status |-> out.status, msg |-> out.msg,
                       end |-> end, start |-> start,
                       batch |-> IF out.status = "ok"
                                 THEN [out.batch EXCEPT
                                        !._problem = Ref(NewAddress(heap))]
                                 ELSE out.batch]
            /\ UNCHANGED <<np_random, mem, sr, call, it, yielded, th, opt>>

\* the problem dictionaries held: the caller's, the batch's, the slice's
HeldProblems ==
    {call.problem}
        \cup (IF sr # PyNone THEN {sr._problem.ref} ELSE {})
        \cup (IF slc.status = "ok" THEN {slc.batch._problem.ref} ELSE {})

\* the list a key of a problem dictionary is given when it is added or
\* replaced
KeyInputs(key) ==
    CASE key = "names" -> PyList(<<"kexp", "ct">>)
      [] key = "bounds" -> PyList(<<<<0, 1>>, <<0, 1>>>>)
      [] OTHER -> PyList(<<"unif", "unif">>)

\* the entry a names or bounds list is given
EntryInputs(key) == IF key = "names" THEN "kexp" ELSE <<0, 1>>

\* what every dictionary held shows
Snapshot == [d \in HeldProblems |-> Problem(heap, d)]

(* d[key] = [...] on one of the dictionaries held: a key is added or       *)
(* replaced                                                                *)
SetKey ==
    /\ sr # PyNone
    /\ \E d \in HeldProblems, key \in {"names", "bounds", "dists"} :
        /\ heap' = dict_setitem(Append(heap, KeyInputs(key)), d, key,
                                Ref(NewAddress(heap)))
        /\ call' = [op |-> "setkey", problem |-> call.problem,
                    target |-> d, key |-> key, before |-> Snapshot]
        /\ UNCHANGED <<np_random, mem, sr, slc, it, yielded, th, opt>>

(* d[key][i] = entry on one of the dictionaries held, key names or bounds *)
SetEntry ==
    /\ sr # PyNone
    /\ \E d \in HeldProblems, key \in {"names", "bounds"} :
        \E i \in 0 .. (Len(heap[heap[d].val[key].ref].val) - 1) :
            /\ heap' = list_setitem(heap, heap[d].val[key].ref, i,
                                    EntryInputs(key))
            /\ call' = [op |-> "setentry", problem |-> call.problem,
                        target |-> d, key |-> key, before |-> Snapshot]
            /\ UNCHANGED <<np_random, mem, sr, slc, it, yielded, th, opt>>

\* a batch and a slice are made until one of the dictionaries is changed
NextProblem ==
    \/ call.op \notin {"setkey", "setentry"} /\ (GenerateCopy \/ SliceCopy)
    \/ call.op \notin {"setkey", "setentry"} /\ (SetKey \/ SetEntry)

SpecProblem == InitProblem /\ [][NextProblem]_vars

\* the batches the methods are called on in any order
ReadCalls == {a \in BatchCalls : a.n <= MaxN}

InitRead == InitBatch /\ call.args \in ReadCalls

SpecRead == InitRead /\ [][NextRead]_vars

SpecWrite == InitRead /\ [][NextWrite]_vars

(* Two sequences over one batch: it and yielded hold, for each of the two *)
(* variables of the caller, the generator bound to it and the slices it   *)
(* has yielded                                                             *)

Generators == {"g1", "g2"}

InitTwoIter ==
    \E a \in ReadCalls :
        \E out \in {generate_samples(a.problem, a.generator, a.n,
                                     a.random_state, a.mean, a.coef_std, 0)} :
            /\ np_random = out.rng
            /\ mem = NewBuffers(out.ret)
            /\ sr = SampleResult(out.ret)
            /\ call = [op |-> "generate_samples", args |-> a,
                       status |-> out.status, warnings |-> out.warnings]
            /\ slc = NoSlice
            /\ it = [g \in Generators |-> NoIter]
            /\ yielded = [g \in Generators |-> <<>>]
            /\ th = <<>>
            /\ opt = <<>>
            /\ heap = <<>>

\* g = sr.iterslice(by): a new generator is bound to g
IterSliceOf(g) ==
    \E by \in IndexInputs(sr.n_sample) :
        /\ it' = [it EXCEPT ![g] = iterslice(sr, by)]
        /\ yielded' = [yielded EXCEPT ![g] = <<>>]
        /\ call' = [op |-> "iterslice", args |-> call.args, status |-> "ok",
                    warnings |-> call.warnings, gen |-> g]
        /\ UNCHANGED <<np_random, mem, sr, slc, th, opt, heap>>

\* next(g), also on a generator that has ended or raised
NextOf(g) ==
    /\ it[g].pc # "none"
    /\ \E out \in {generator_next(it[g])} :
            /\ it' = [it EXCEPT ![g] = out.frame]
            /\ yielded' = IF out.status = "yield"
                          THEN [yielded EXCEPT ![g] = Append(@, out.value)]
                          ELSE yielded
            /\ call' = [op |-> "next", args |-> call.args,
                        status |-> out.status, warnings |-> call.warnings,
                        gen |-> g]
            /\ UNCHANGED <<np_random, mem, sr, slc, th, opt, heap>>

NextTwoIter == \E g \in Generators : IterSliceOf(g) \/ NextOf(g)

SpecTwoIter == InitTwoIter /\ [][NextTwoIter]_vars

---------------------------------------------------------------------------
(* generate_samples called from the threads of one process *)

Threads == {"T1", "T2"}

\* the calls the threads make: each with a random_state of its own
ThreadCalls ==
    {Args(ProblemCpLr, PyStr(g), n, PyInt(s), PyNone, PyNone) :
        g \in {"uniform", "NORMAL"}, n \in 1 .. MaxN, s \in 0 .. MaxSeed}

\* a thread that has not called generate_samples
IdleFrame ==
    [pc |-> "idle", args |-> PyNone, generator |-> "", mean |-> PyNone,
     ret |-> PyNone, i |-> 0, disturbed |-> FALSE]

InitThreads ==
    /\ np_random \in RngStates
    /\ mem = <<>>
    /\ sr = PyNone
    /\ call = NoCall
    /\ slc = NoSlice
    /\ it = NoIter
    /\ yielded = <<>>
    /\ th = [t \in Threads |-> IdleFrame]
    /\ opt = <<>>
    /\ heap = <<>>

(* The frames after thread t took a step on the process-wide stream and    *)
(* is left with frame f: every other thread that has reseeded and has a   *)
(* draw still to make has had the stream changed under it.                *)
AfterStreamStep(t, f) ==
    [u \in Threads |->
        IF u = t THEN f
        ELSE IF th[u].pc = "draw" THEN [th[u] EXCEPT !.disturbed = TRUE]
        ELSE th[u]]

(* thread t enters generate_samples: the arguments are standardised and    *)
(* ret_dict is built; the process-wide stream is not touched               *)
ThreadCall(t) ==
    /\ th[t].pc = "idle"
    /\ \E a \in ThreadCalls :
        \E std \in {_standardize_generate_samples_args(a.problem, a.generator,
                                                       a.mean)} :
            th' = [th EXCEPT ![t] =
                    IF std.status = "ok"
                    THEN [pc |-> "seed", args |-> a,
                          generator |-> std.generator, mean |-> std.mean,
                          ret |-> NewRetDict(a.problem, std.generator, a.n),
                          i |-> 0, disturbed |-> FALSE]
                    ELSE [IdleFrame EXCEPT !.pc = "raised", !.args = a]]
    /\ UNCHANGED <<np_random, mem, sr, call, slc, it, yielded, opt, heap>>

(* thread t runs "if random_state is not None: np.random.seed(...)" *)
ThreadSeed(t) ==
    /\ th[t].pc = "seed"
    /\ np_random' = Reseed(th[t].args.random_state, np_random)
    /\ th' = AfterStreamStep(t,
                [th[t] EXCEPT !.pc = IF Len(th[t].args.problem.val.names) = 0
                                     THEN "done" ELSE "draw",
                              !.i = 1])
    /\ UNCHANGED <<mem, sr, call, slc, it, yielded, opt, heap>>

(* thread t runs one turn of the loop: variable i is drawn from the        *)
(* process-wide stream as it is now                                       *)
ThreadDraw(t) ==
    /\ th[t].pc = "draw"
    /\ \E st \in {SampleVariable([ret |-> th[t].ret, rng |-> np_random,
                                  status |-> "ok"],
                                 th[t].args.problem, th[t].generator,
                                 th[t].args.n, th[t].mean,
                                 th[t].args.coef_std, th[t].i)} :
            /\ np_random' = st.rng
            /\ th' = AfterStreamStep(t,
                        [th[t] EXCEPT
                            !.ret = st.ret,
                            !.i = @ + 1,
                            !.pc = IF st.status # "ok" THEN "raised"
                                   ELSE IF th[t].i
                                        = Len(th[t].args.problem.val.names)
                                   THEN "done" ELSE "draw"])
    /\ UNCHANGED <<mem, sr, call, slc, it, yielded, opt, heap>>

NextThreads == \E t \in Threads : ThreadCall(t) \/ ThreadSeed(t) \/ ThreadDraw(t)

SpecThreads == InitThreads /\ [][NextThreads]_vars

---------------------------------------------------------------------------
(* Constructing optimizers *)

\* the variables of the training code that hold an optimizer
OptVars == {"opt1"}

\* the option keys a construction is given, and the value given with each
OptionUniverse ==
    {"learning_rate", "momentum", "b1", "b2", "rho", "eps", "foo"}

OptionValue(key) ==
    CASE key = "learning_rate" -> Rat(1, 10)
      [] key = "momentum" -> Rat(1, 2)
      [] key = "b1" -> Rat(1, 2)
      [] key = "b2" -> Rat(9, 16)
      [] key = "rho" -> Rat(1, 2)
      [] key = "eps" -> Rat(1, 1000000)
      [] OTHER -> RInt(1)

Option(key) == <<key, OptionValue(key)>>

\* the constructions tried: no option, one option, two options in either
\* order
OptionInputs ==
    {<<>>}
    \cup {<<Option(k)>> : k \in OptionUniverse}
    \cup {<<Option(kl[1]), Option(kl[2])>> :
            kl \in {p \in OptionUniverse \X OptionUniverse : p[1] # p[2]}}

\* a construction is the optimizer's name and its options
ConstructInputs == OptimizerNames \X OptionInputs

InitOptimizers ==
    /\ np_random = 0
    /\ mem = <<>>
    /\ sr = PyNone
    /\ call = NoCall
    /\ slc = NoSlice
    /\ it = NoIter
    /\ yielded = <<>>
    /\ th = <<>>
    /\ opt = [o \in OptVars |-> PyNone]
    /\ heap = <<>>

(* o = name(options): on an exception o keeps what it held; before is     *)
(* what o held at the call                                                *)
Construct(o, inputs) ==
    \E c \in inputs :
        \E out \in {optimizer_init(c[1], c[2])} :
            /\ call' = [op |-> "construct", var |-> o, name |-> c[1],
                        options |-> c[2], status |-> out.status,
                        msg |-> out.msg, self |-> out.self,
                        before |-> opt[o]]
            /\ opt' = IF out.status = "ok"
                      THEN [opt EXCEPT ![o] = out.self]
                      ELSE opt
            /\ UNCHANGED <<np_random, mem, sr, slc, it, yielded, th, heap>>

NextConstruct == \E o \in OptVars : Construct(o, ConstructInputs)

SpecConstruct == InitOptimizers /\ [][NextConstruct]_vars

---------------------------------------------------------------------------
(* Training: update calls on an optimizer *)

\* the constructions whose instance is trained with
TrainingInputs ==
    {<<"sgd", <<Option("learning_rate")>> >>,
     <<"sgd", <<Option("learning_rate"), Option("momentum")>> >>,
     <<"adam", <<Option("learning_rate"), Option("b1"), Option("b2")>> >>,
     <<"adagrad", <<Option("learning_rate")>> >>,
     <<"rmsprop", <<Option("learning_rate"), Option("rho")>> >>}

\* the parameter tensor of shape d: 1, 2, ..., d
WInput(d) == [k \in 1 .. d |-> RInt(k)]

\* the gradients of shape d: all 0, all 1, and 1/2, -1/2, 1/2, ...
GradInputs(d) ==
    {[k \in 1 .. d |-> RInt(0)], [k \in 1 .. d |-> RInt(1)],
     [k \in 1 .. d |-> IF k % 2 = 1 THEN Rat(1, 2) ELSE Rat(-1, 2)]}

\* the update calls made on the instance since it was constructed
UpdateCount == IF call.op = "update" THEN call.count ELSE 0

(* result = o.update(w, grad_wrt_w); before is the instance at the call    *)
(* and prev the update call made before this one                           *)
Update(o) ==
    /\ opt[o] # PyNone
    /\ UpdateCount < MaxUpdates
    /\ \E d \in 1 .. MaxDim :
        \E grad_wrt_w \in GradInputs(d) :
            \E out \in {update(opt[o], WInput(d), grad_wrt_w)} :
                /\ opt' = [opt EXCEPT ![o] = out.self]
                /\ call' = [op |-> "update", var |-> o, w |-> WInput(d),
                            grad |-> grad_wrt_w, status |-> out.status,
                            result |-> out.result, before |-> opt[o],
                            count |-> UpdateCount + 1,
                            prev |-> IF call.op = "update"
                                     THEN [w |-> call.w, grad |-> call.grad,
                                           status |-> call.status,
                                           result |-> call.result]
                                     ELSE PyNone]
    /\ UNCHANGED <<np_random, mem, sr, slc, it, yielded, th, heap>>

NextUpdate == \E o \in OptVars : Construct(o, TrainingInputs) \/ Update(o)

SpecUpdate == InitOptimizers /\ [][NextUpdate]_vars

\* the constructions of the optimizers that sum squared gradients: adagrad,
\* and rmsprop with rho at both ends of [0, 1] and inside it
AccumulatorInputs ==
    {<<"adagrad", <<Option("learning_rate")>> >>}
        \cup {<<"rmsprop", <<Option("learning_rate"), <<"rho", rho>> >> >> :
                rho \in {RInt(0), Rat(1, 2), RInt(1)}}

NextAccumulate ==
    \E o \in OptVars : Construct(o, AccumulatorInputs) \/ Update(o)

SpecAccumulate == InitOptimizers /\ [][NextAccumulate]_vars

---------------------------------------------------------------------------
(* Two instances trained by one caller on arrays of the heap *)

Instances == {"opt1", "opt2"}

\* the constructions of the two instances: one of each optimizer
FrameInputs ==
    {<<"sgd", <<Option("learning_rate"), Option("momentum")>> >>,
     <<"adam", <<Option("learning_rate"), Option("b1"), Option("b2")>> >>,
     <<"adagrad", <<Option("learning_rate")>> >>,
     <<"rmsprop", <<Option("learning_rate"), Option("rho")>> >>}

\* the gradients of shape d the caller holds: all 0, all 1, and
\* 1/2, -1/2, 1/2, ...
GradArrays(d) ==
    <<[k \in 1 .. d |-> RInt(0)], [k \in 1 .. d |-> RInt(1)],
      [k \in 1 .. d |-> IF k % 2 = 1 THEN Rat(1, 2) ELSE Rat(-1, 2)]>>

\* the caller holds w at the first address and its gradients after it
InitFrame ==
    /\ np_random = 0
    /\ heap = <<WInput(MaxDim)>> \o GradArrays(MaxDim)
    /\ mem = [w |-> 1, grads |-> 2 .. Len(heap)]
    /\ sr = PyNone
    /\ call = NoCall
    /\ slc = NoSlice
    /\ it = NoIter
    /\ yielded = <<>>
    /\ th = <<>>
    /\ opt = [o \in Instances |-> PyNone]

\* o = name(options), for a variable that holds no instance yet
ConstructOnce(o) ==
    /\ opt[o] = PyNone
    /\ Construct(o, FrameInputs)

(* result = o.update(w, grad_wrt_w) once both instances exist; before is   *)
(* the instances and the heap at the call                                  *)
UpdateOnHeap(o) ==
    /\ \A p \in Instances : opt[p] # PyNone
    /\ UpdateCount < MaxUpdates
    /\ \E grad_wrt_w \in mem.grads :
        \E out \in {update_on_heap(heap, opt[o], mem.w, grad_wrt_w)} :
            /\ heap' = out.heap
            /\ opt' = [opt EXCEPT ![o] = out.self]
            /\ call' = [op |-> "update", var |-> o, w |-> mem.w,
                        grad |-> grad_wrt_w, status |-> out.status,
                        result |-> out.result, count |-> UpdateCount + 1,
                        before |-> [opt |-> opt, heap |-> heap]]
    /\ UNCHANGED <<np_random, mem, sr, slc, it, yielded, th>>

NextFrame == \E o \in Instances : ConstructOnce(o) \/ UpdateOnHeap(o)

SpecFrame == InitFrame /\ [][NextFrame]_vars

---------------------------------------------------------------------------
(* Properties of the sampler *)

\* the last call was an accepted generate_samples call
Generated == call.op = "generate_samples" /\ call.status = "ok"

\* the values and the weights the held SampleResult has for a variable
ValuesOf(name) == Elems(mem, sr[name])
WeightsOf(name) == Elems(mem, sr["_" \o name])

\* x lies in the closed interval [low, upp]
Within(x, low, upp) == RLe(RInt(low), x) /\ RLe(x, RInt(upp))

(* C6: a batch of the uniform generator, for a problem with low < high    *)
(* everywhere and n > 0, has for each variable exactly n values, all in   *)
(* [low, high], and n weights all equal to 1 / (high - low), which is     *)
(* strictly positive.                                                     *)
C6_UniformBatch ==
    (Generated /\ lower(call.args.generator.val) = "uniform" /\ call.args.n > 0)
    => LET P == call.args.problem.val IN
       \A i \in 1 .. Len(P.names) :
          LET low == P.bounds[i][1]
              upp == P.bounds[i][2]
              x == ValuesOf(P.names[i])
              w == WeightsOf(P.names[i])
          IN  low < upp =>
              /\ Len(x) = call.args.n
              /\ Len(w) = call.args.n
              /\ \A k \in 1 .. Len(x) : Within(x[k], low, upp)
              /\ \A k \in 1 .. Len(w) :
                    /\ w[k].num * (upp - low) = w[k].den
                    /\ w[k].num > 0 /\ w[k].den > 0

\* an unseeded uniform batch of two variables and at least two samples,
\* with a value strictly inside its bounds
C6_Witness ==
    /\ Generated
    /\ sr.generator = "uniform"
    /\ call.args.random_state = PyNone
    /\ call.args.n >= 2
    /\ Len(sr._problem.val.names) = 2
    /\ \E k \in 1 .. sr.n_sample :
          /\ RLt(RInt(-2), ValuesOf("lr")[k])
          /\ RLt(ValuesOf("lr")[k], RInt(4))
          /\ WeightsOf("lr")[k] = [num |-> 1, den |-> 6]

\* the mean the call configures for a variable: the supplied one, or the
\* midpoint of the variable's bounds
ConfiguredMean(args, name, low, upp) ==
    IF args.mean # PyNone
       /\ \E j \in 1 .. Len(args.mean.val) : args.mean.val[j][1] = name
    THEN LET j == CHOOSE l \in 1 .. Len(args.mean.val) :
                        args.mean.val[l][1] = name
         IN  RInt(args.mean.val[j][2].val)
    ELSE Rat(low + upp, 2)

\* the standard deviation the call configures: (high - low) / coef_std,
\* coef_std being 3 when none is given
ConfiguredStd(args, low, upp) ==
    IF args.coef_std = PyNone
    THEN Rat(upp - low, 3)
    ELSE Rat(upp - low, args.coef_std.val)

(* C7: a batch of the normal/gaussian generator has every value within    *)
(* [low, high]; its distribution has the supplied mean (the midpoint of   *)
(* the bounds when none is supplied) and the standard deviation           *)
(* (high - low) / coef_std, coef_std being 3 by default, and is           *)
(* truncated to [low, high]; each weight is the density of that           *)
(* distribution at the value drawn.                                       *)
C7_NormalBatch ==
    (Generated /\ lower(call.args.generator.val) \in {"normal", "gaussian"})
    => LET P == call.args.problem.val IN
       \A i \in 1 .. Len(P.names) :
          LET low == P.bounds[i][1]
              upp == P.bounds[i][2]
              x == ValuesOf(P.names[i])
              w == WeightsOf(P.names[i])
              mu == ConfiguredMean(call.args, P.names[i], low, upp)
              sd == ConfiguredStd(call.args, low, upp)
          IN  /\ Len(x) = call.args.n
              /\ Len(w) = call.args.n
              /\ \A k \in 1 .. Len(x) :
                    /\ Within(x[k], low, upp)
                    /\ w[k].at = x[k]
                    /\ w[k].pdf.loc = mu
                    /\ w[k].pdf.scale = sd
                    /\ TruncLow(w[k].pdf) = RInt(low)
                    /\ TruncUpp(w[k].pdf) = RInt(upp)

\* a normal batch with a supplied mean for lr, a supplied coef_std, and a
\* value strictly between the bounds
C7_Witness ==
    /\ Generated
    /\ sr.generator = "normal"
    /\ call.args.coef_std = PyInt(2)
    /\ call.args.mean = PyDict(<< <<"lr", PyInt(3)>> >>)
    /\ sr.n_sample >= 2
    /\ \E k \in 1 .. sr.n_sample :
          /\ RLt(RInt(-2), ValuesOf("lr")[k])
          /\ WeightsOf("lr")[k].pdf.loc = RInt(3)
          /\ WeightsOf("lr")[k].pdf.scale = RInt(3)
          /\ WeightsOf("cp")[k].pdf.loc = RInt(2)
          /\ WeightsOf("cp")[k].pdf.scale = RInt(1)

(* C8: the batch returned by a call with a non-null random_state is the   *)
(* batch the same call returns from every other state of the process-wide *)
(* stream, that is, after any calls, seeded or not, made before it.       *)
C8_Reproducible ==
    (Generated /\ call.args.random_state # PyNone)
    => \A r \in RngStates :
          LET again == generate_samples(call.args.problem, call.args.generator,
                                        call.args.n, call.args.random_state,
                                        call.args.mean, call.args.coef_std, r)
          IN  /\ again.status = "ok"
              /\ again.ret = Contents(mem, sr)

\* a seeded call of two samples made when the stream was not in the state
\* the seed sets, after a call that advanced the stream
C8_Witness ==
    /\ Generated
    /\ call.args.random_state = PyInt(1)
    /\ call.args.n = 2
    /\ np_random # np_random_seed(1)
    /\ ValuesOf("cp")[1] # ValuesOf("cp")[2]

---------------------------------------------------------------------------
(* Properties of the validation *)

\* the last call took a problem: either public entry of the validation
TookProblem == call.op \in {"generate_samples", "signatures_sensitivity"}

IsDict(p) == p.type = "dict"

\* the required keys a problem dictionary lacks, the extra keys it has
MissingKeys(p) == {"num_vars", "names", "bounds"} \ DOMAIN p.val
ExtraKeys(p) == (DOMAIN p.val) \ {"num_vars", "names", "bounds"}

\* the warnings of the last call about keys of the problem
ProblemWarnings ==
    {call.warnings[j] : j \in {l \in 1 .. Len(call.warnings) :
                                  call.warnings[l].what = "problem"}}

(* What the validation does with a dictionary: a configuration error when *)
(* a required key is missing; otherwise it passes (whatever the call      *)
(* makes of its other arguments), returns the problem, and warns of the   *)
(* extra keys exactly when there are some.                                *)
DictOutcome(p) ==
    /\ MissingKeys(p) # {} => call.status = "KeyError"
    /\ MissingKeys(p) = {} =>
          /\ call.status \notin {"KeyError", "TypeError"}
          /\ call.op = "signatures_sensitivity" =>
                call.status = "ok" /\ call.result = p
          /\ ExtraKeys(p) = {} => ProblemWarnings = {}
          /\ ExtraKeys(p) # {} =>
                ProblemWarnings = {[what |-> "problem", keys |-> ExtraKeys(p)]}

(* C10 as claimed: exactly three outcomes, every non-dictionary input     *)
(* failing with a type error.                                             *)
C10_ThreeOutcomes ==
    TookProblem =>
        LET p == call.args.problem IN
        /\ ~ IsDict(p) => call.status = "TypeError"
        /\ IsDict(p) => DictOutcome(p)

(* C10 amended: None is a fourth outcome of _standardize_problem, which   *)
(* replaces it by the problem read from the Model's bound constraints;    *)
(* every other non-dictionary input fails with a type error, and          *)
(* generate_samples fails with a type error for None too; dictionaries    *)
(* are treated as claimed.                                                *)
C10_FourOutcomes ==
    TookProblem =>
        LET p == call.args.problem IN
        /\ (p = PyNone /\ call.op = "signatures_sensitivity") =>
              /\ call.status = "ok"
              /\ call.warnings = <<>>
              /\ IsDict(call.result)
              /\ MissingKeys(call.result) = {}
              /\ call.result.val.names = ModelSetup.parameters
        /\ (~ IsDict(p) /\ ~ (p = PyNone /\ call.op = "signatures_sensitivity"))
              => call.status = "TypeError"
        /\ IsDict(p) => DictOutcome(p)

\* _standardize_problem was given None and returned the problem of the
\* Model's bound constraints, after a generate_samples call was accepted
C10_Witness ==
    /\ call.op = "signatures_sensitivity"
    /\ call.args.problem = PyNone
    /\ call.status = "ok"
    /\ call.result.val.names = <<"cp", "lr">>
    /\ sr # PyNone


---------------------------------------------------------------------------
(* Slicing *)

Sliced == slc.status # "none"

\* 0 <= start <= end <= n_sample of the batch slice was called on
InRange == 0 <= slc.start /\ slc.start <= slc.end /\ slc.end <= sr.n_sample

\* C1: slice law. For 0 <= s <= e <= B.n_sample, s = e included,
\* B.slice(end=e, start=s) returns a batch whose value and weight sequence
\* of every variable is B's restricted to [s, e), whose n_sample is e - s
\* and whose generator and Problem Specification are B's.
C1_SliceLaw ==
    (Sliced /\ InRange) =>
        /\ slc.status = "ok"
        /\ DOMAIN slc.batch = DOMAIN sr
        /\ \A key \in ArrayKeys(sr) :
                Elems(mem, slc.batch[key])
                    = SubSeq(Elems(mem, sr[key]), slc.start + 1, slc.end)
        /\ slc.batch.n_sample = slc.end - slc.start
        /\ slc.batch.generator = sr.generator
        /\ slc.batch._problem = sr._problem

\* an inner range of a batch that is itself a slice starting past index 0
C1_Witness ==
    /\ Sliced
    /\ InRange
    /\ slc.status = "ok"
    /\ sr.cp.off > 0
    /\ slc.start > 0
    /\ slc.end - slc.start >= 2

\* C2: slice(end, start) fails with a range error, returns no batch and
\* leaves the source batch unchanged whenever end < start, start < 0 or
\* end > n_sample; for every other pair of integers it succeeds.
C2_SliceRange ==
    Sliced =>
        LET bad == \/ slc.end < slc.start
                   \/ slc.start < 0
                   \/ slc.end > sr.n_sample
        IN  /\ bad => /\ slc.status = "ValueError"
                      /\ slc.batch = PyNone
                      /\ Contents(mem, sr) = slc.source
            /\ ~bad => /\ slc.status = "ok"
                       /\ slc.batch # PyNone

\* an end index one past the size of the batch was refused
C2_Witness ==
    /\ Sliced
    /\ slc.end = sr.n_sample + 1
    /\ slc.start = 0
    /\ sr.n_sample >= 2
    /\ slc.status = "ValueError"

---------------------------------------------------------------------------
(* Iterating by slices *)

\* the iterator has been asked for a slice at least once
Advanced == it.pc \in {"suspended", "done", "raised"}

\* by is a slice size the batch can be cut into
AcceptedBy == 1 <= it.by /\ it.by <= it.self.n_sample

\* the elements of array key in the slices received, in the order received
Received(key) ==
    LET upto[j \in 0 .. Len(yielded)] ==
            IF j = 0 THEN <<>> ELSE upto[j - 1] \o Elems(mem, yielded[j][key])
    IN  upto[Len(yielded)]

\* C3: partition law. For 1 <= k <= B.n_sample the slices B.iterslice(k)
\* yields are contiguous, non-overlapping and in ascending index order,
\* and concatenated in yielded order they are B's value and weight
\* sequence of every variable: no index dropped, duplicated or reordered.
C3_Partition ==
    (Advanced /\ AcceptedBy) =>
        \A key \in ArrayKeys(it.self) :
            /\ \A j \in 1 .. Len(yielded) :
                    /\ yielded[j][key].base = it.self[key].base
                    /\ yielded[j][key].len >= 1
                    /\ yielded[j][key].off =
                            IF j = 1
                            THEN it.self[key].off
                            ELSE yielded[j - 1][key].off
                                    + yielded[j - 1][key].len
            /\ Received(key)
                    = SubSeq(Elems(mem, it.self[key]), 1, Len(Received(key)))
            /\ it.pc = "done" => Received(key) = Elems(mem, it.self[key])

\* a batch of four sets was cut by three: a slice of three and one of one
C3_Witness ==
    /\ it.pc = "done"
    /\ it.by = 3
    /\ it.self.n_sample = 4
    /\ Len(yielded) = 2
    /\ call.status = "StopIteration"

\* ceil(n / by)
CeilDiv(n, by) == (n + by - 1) \div by

\* C4: for 1 <= by <= n iterslice(by) is finite: it yields exactly
\* ceil(n / by) slices and then ends; every slice has size by except
\* possibly the last, of size n mod by when by does not divide n; by = n
\* yields one slice equal to the whole batch and by = 1 yields n slices of
\* one set each.
C4_FiniteIteration ==
    (Advanced /\ AcceptedBy) =>
        LET n == it.self.n_sample
            by == it.by
            last == IF n % by = 0 THEN by ELSE n % by
        IN  /\ it.pc # "raised"
            /\ Len(yielded) <= CeilDiv(n, by)
            /\ it.pc = "suspended" =>
                    /\ Len(yielded) >= 1
                    /\ it.ind_start < it.ind_end
                    /\ it.ind_end = np_minimum(Len(yielded) * by, n)
            /\ it.pc = "done" => Len(yielded) = CeilDiv(n, by)
            /\ \A j \in 1 .. Len(yielded) :
                    yielded[j].n_sample
                        = IF j < CeilDiv(n, by) THEN by ELSE last
            /\ (it.pc = "done" /\ by = n) =>
                    /\ Len(yielded) = 1
                    /\ Contents(mem, yielded[1]) = Contents(mem, it.self)
            /\ (it.pc = "done" /\ by = 1) =>
                    /\ Len(yielded) = n
                    /\ \A j \in 1 .. n : yielded[j].n_sample = 1

\* a batch of three sets or more was iterated by its own size to the end
C4_Witness ==
    /\ it.pc = "done"
    /\ it.self.n_sample >= 3
    /\ it.by = it.self.n_sample
    /\ Len(yielded) = 1

\* C5: iterslice(by) fails with a range error and yields no slice for
\* every by outside [0, n_sample], above n_sample as well as below 0.
C5_RangeError ==
    (Advanced /\ (it.by > it.self.n_sample \/ it.by < 0)) =>
        /\ it.pc = "raised"
        /\ call.op = "next"
        /\ call.status = "ValueError"
        /\ yielded = <<>>

\* a negative by was refused on a batch that holds sets
C5_Witness ==
    /\ it.pc = "raised"
    /\ it.by < 0
    /\ it.self.n_sample >= 2
    /\ call.status = "ValueError"
    /\ yielded = <<>>

---------------------------------------------------------------------------
(* Calls from several threads *)

\* the dictionary the call returns when no other call runs beside it
Alone(a) ==
    generate_samples(a.problem, a.generator, a.n, a.random_state, a.mean,
                     a.coef_std, 0).ret

\* no two of the calls made so far were given the same random_state
OwnRandomState ==
    \A t, u \in Threads :
        (t # u /\ th[t].pc # "idle" /\ th[u].pc # "idle") =>
            th[t].args.random_state # th[u].args.random_state

---------------------------------------------------------------------------
(* Optimizer construction *)

Constructed == call.op = "construct"

\* the option keys of the last construction that its optimizer does not take
OffendingKeys == OptionKeys(call.options) \ InitParameters(call.name)

\* C11: for each of sgd, adam, adagrad and rmsprop, construction with any
\* option key the optimizer does not recognize fails with a configuration
\* error whose message names every offending key, and no instance is
\* created; construction with recognized keys only succeeds.
C11_UnknownOptions ==
    Constructed =>
        /\ OffendingKeys # {} =>
              /\ call.status = "KeyError"
              /\ {call.msg[i] : i \in 1 .. Len(call.msg)} = OffendingKeys
              /\ call.self = PyNone
              /\ opt[call.var] = call.before
        /\ OffendingKeys = {} =>
              /\ call.status = "ok"
              /\ call.self # PyNone
              /\ call.self.name = call.name
              /\ opt[call.var] = call.self

\* sgd was given two options it does not take while an instance existed
C11_Witness ==
    /\ Constructed
    /\ call.name = "sgd"
    /\ Cardinality(OffendingKeys) = 2
    /\ call.status = "KeyError"
    /\ call.before # PyNone

\* the hyperparameters of each row of the table of update rules
TableKeys(name) ==
    CASE name = "sgd" -> {"learning_rate", "momentum"}
      [] name = "adam" -> {"learning_rate", "b1", "b2", "eps"}
      [] name = "adagrad" -> {"learning_rate", "eps"}
      [] name = "rmsprop" -> {"learning_rate", "rho", "eps"}

\* the keys each constructor takes as keywords
SignatureKeys(name) == TableKeys(name) \ {"eps"}

\* every option given under a key of keys is the attribute of that name
SetsHyperparameters(keys) ==
    \A i \in 1 .. Len(call.options) :
        call.options[i][1] \in keys =>
            call.self[call.options[i][1]] = call.options[i][2]

\* C12 as claimed: the keys a constructor accepts are exactly the
\* hyperparameters of its row of the table, eps included for adam, adagrad
\* and rmsprop; each sets its hyperparameter and every other key is
\* rejected.
C12_TableOptions ==
    Constructed =>
        /\ call.status = "ok" <=> OptionKeys(call.options) \subseteq TableKeys(call.name)
        /\ call.status = "ok" => SetsHyperparameters(TableKeys(call.name))

\* C12 amended: the keys accepted are learning_rate and momentum for sgd;
\* learning_rate, b1 and b2 for adam; learning_rate for adagrad;
\* learning_rate and rho for rmsprop.  Each sets its hyperparameter; every
\* other key, eps included, is rejected, and eps is 1e-8 in every adam,
\* adagrad and rmsprop instance.
C12_SignatureOptions ==
    Constructed =>
        /\ call.status = "ok"
                <=> OptionKeys(call.options) \subseteq SignatureKeys(call.name)
        /\ call.status # "ok" => call.status = "KeyError"
        /\ call.status = "ok" =>
              /\ SetsHyperparameters(SignatureKeys(call.name))
              /\ call.name # "sgd" => call.self.eps = Rat(1, 100000000)
              /\ call.name = "sgd" => "eps" \notin DOMAIN call.self

\* adam was given b1 and eps, and refused eps
C12_Witness ==
    /\ Constructed
    /\ call.name = "adam"
    /\ OptionKeys(call.options) = {"b1", "eps"}
    /\ call.status = "KeyError"
    /\ call.msg = <<"eps">>

---------------------------------------------------------------------------
(* Optimizer updates *)

Updated == call.op = "update"

\* the instance the last call was made on, as the call left it
Self == opt[call.var]

\* element k of accumulator attr before the call (0 when not yet allocated)
\* and after it
OldAcc(attr, k) ==
    IF call.before[attr] = PyNone
    THEN RInt(0)
    ELSE Stretch(call.before[attr].val, k)

NewAcc(attr, k) == Stretch(Self[attr].val, k)

\* element k of the tensors of the call
GradAt(k) == Stretch(call.grad, k)
WAt(k) == Stretch(call.w, k)

\* 1 - x
OneMinus(x) == RSub(RInt(1), x)

\* the rule of each row of the table, at element k
SgdRule(k) ==
    /\ NewAcc("w_updt", k)
            = RAdd(RMul(Self.momentum, OldAcc("w_updt", k)),
                   RMul(OneMinus(Self.momentum), GradAt(k)))
    /\ call.result[k]
            = RSub(WAt(k), RMul(Self.learning_rate, NewAcc("w_updt", k)))

AdamRule(k) ==
    /\ NewAcc("m", k) = RAdd(RMul(Self.b1, OldAcc("m", k)),
                             RMul(OneMinus(Self.b1), GradAt(k)))
    /\ NewAcc("v", k) = RAdd(RMul(Self.b2, OldAcc("v", k)),
                             RMul(OneMinus(Self.b2),
                                  RMul(GradAt(k), GradAt(k))))
    /\ call.result[k]
            = [w |-> WAt(k),
               numer |-> RMul(Self.learning_rate,
                              RDiv(NewAcc("m", k), OneMinus(Self.b1))),
               root |-> RDiv(NewAcc("v", k), OneMinus(Self.b2)),
               eps_in |-> RInt(0), eps_out |-> Rat(1, 100000000)]

AdagradRule(k) ==
    /\ NewAcc("G", k) = RAdd(OldAcc("G", k), RMul(GradAt(k), GradAt(k)))
    /\ call.result[k]
            = [w |-> WAt(k),
               numer |-> RMul(Self.learning_rate, GradAt(k)),
               root |-> NewAcc("G", k),
               eps_in |-> Rat(1, 100000000), eps_out |-> RInt(0)]

RmspropRule(k) ==
    /\ NewAcc("Eg", k) = RAdd(RMul(Self.rho, OldAcc("Eg", k)),
                              RMul(OneMinus(Self.rho),
                                   RMul(GradAt(k), GradAt(k))))
    /\ call.result[k]
            = [w |-> WAt(k),
               numer |-> RMul(Self.learning_rate, GradAt(k)),
               root |-> NewAcc("Eg", k),
               eps_in |-> Rat(1, 100000000), eps_out |-> RInt(0)]

\* C13: every update(w, grad) that returns stores and returns what the
\* rule of its optimizer prescribes from the accumulators it found, which
\* are 0 at the first call: sgd v <- momentum*v + (1-momentum)*grad,
\* w' = w - lr*v; adam m <- b1*m + (1-b1)*grad, v <- b2*v + (1-b2)*grad^2,
\* w' = w - lr*(m/(1-b1)) / (sqrt(v/(1-b2)) + eps); adagrad G <- G + grad^2,
\* w' = w - lr*grad/sqrt(G + eps); rmsprop E <- rho*E + (1-rho)*grad^2,
\* w' = w - lr*grad/sqrt(E + eps).  sgd with learning_rate 0.1 and momentum
\* 0 on w = [1, 2], grad = [0.5, -0.5] returns [0.95, 2.05].
C13_UpdateRules ==
    (Updated /\ call.status = "ok") =>
        /\ \A k \in 1 .. Len(call.result) :
                CASE Self.name = "sgd" -> SgdRule(k)
                  [] Self.name = "adam" -> AdamRule(k)
                  [] Self.name = "adagrad" -> AdagradRule(k)
                  [] Self.name = "rmsprop" -> RmspropRule(k)
        /\ ( /\ Self.name = "sgd"
             /\ Self.learning_rate = Rat(1, 10)
             /\ Self.momentum = RInt(0)
             /\ call.w = <<RInt(1), RInt(2)>>
             /\ call.grad = <<Rat(1, 2), Rat(-1, 2)>> )
                => call.result = <<Rat(19, 20), Rat(41, 20)>>

\* the third update of an sgd instance with momentum, after two updates
\* with a gradient that is not 0
C13_Witness ==
    /\ Updated
    /\ call.status = "ok"
    /\ Self.name = "sgd"
    /\ Self.momentum = Rat(1, 2)
    /\ call.count = 3
    /\ call.prev.grad = <<RInt(1), RInt(1)>>
    /\ call.grad = <<Rat(1, 2), Rat(-1, 2)>>
    /\ call.before.w_updt.val # <<RInt(0), RInt(0)>>

\* the last two update calls returned and were given the same w and the
\* same gradient
SameCallTwice ==
    /\ Updated
    /\ call.prev # PyNone
    /\ call.status = "ok"
    /\ call.prev.status = "ok"
    /\ call.w = call.prev.w
    /\ call.grad = call.prev.grad

ISqrt(n) == CHOOSE k \in 0 .. n : k * k = n
RSqrt(x) == Rat(ISqrt(x.num), ISqrt(x.den))

(* w - a1/(s1 + e) = w - a2/(s2 + e), for s1, s2 >= 0 and e > 0, exactly    *)
(* when a1*s2 - a2*s1 = e*(a2 - a1)                                        *)
SameValue(t1, t2) ==
    LET lhs == RSub(RMul(t1.numer, RSqrt(t2.root)),
                    RMul(t2.numer, RSqrt(t1.root)))
        rhs == RSub(t2.numer, t1.numer)
    IN  IF rhs = RInt(0) THEN lhs = RInt(0) ELSE RDiv(lhs, rhs) = t1.eps_out

Accumulators(name) ==
    CASE name = "sgd" -> {"w_updt"}
      [] name = "adam" -> {"m", "v"}
      [] name = "adagrad" -> {"G"}
      [] name = "rmsprop" -> {"Eg"}

\* C15: accumulators do not exist before the first update, are allocated
\* at the first update with the shape of the first parameter tensor w and
\* keep that shape afterwards; an update whose tensor has another shape
\* than the first fails with a shape-mismatch error and leaves the
\* accumulators unchanged instead of reshaping them.
C15_AccumulatorShape ==
    /\ (Constructed /\ call.status = "ok") =>
            \A a \in Accumulators(call.name) : call.self[a] = PyNone
    /\ Updated =>
            \A a \in Accumulators(Self.name) :
                IF call.before[a] = PyNone
                THEN call.status = "ok" => Len(Self[a].val) = Len(call.w)
                ELSE IF Len(call.w) = Len(call.before[a].val)
                THEN Len(Self[a].val) = Len(call.before[a].val)
                ELSE /\ call.status = "ValueError"
                     /\ Self[a] = call.before[a]

---------------------------------------------------------------------------
(* The batch under its own methods *)

\* slice S holds every variable of batch B, in B's order, over indexes
\* [start, end) of B
CarriesVariables(S, B, start, end) ==
    /\ S._problem.val.names = B._problem.val.names
    /\ DOMAIN S = DOMAIN B
    /\ \A j \in 1 .. Len(B._problem.val.names) :
            NamedArrays(mem, S)[j]
                = SubSeq(NamedArrays(mem, B)[j], start + 1, end)

\* the index in the iterated batch at which yielded slice j starts
YieldStart(j) == yielded[j].cp.off - it.self.cp.off

\* C16: none of slice, iterslice, to_numpy and to_dataframe mutates the
\* batch they are called on: after any sequence of these calls, failing
\* ones included, its generator, n_sample, Problem Specification and every
\* value and weight sequence are as generated, and every slice carries all
\* of its variables in its order.
C16_SourceUnchanged ==
    /\ Contents(mem, sr) = Alone(call.args)
    /\ slc.status = "ok" => CarriesVariables(slc.batch, sr, slc.start, slc.end)
    /\ \A j \in 1 .. Len(yielded) :
            CarriesVariables(yielded[j], sr, YieldStart(j),
                             YieldStart(j) + yielded[j].n_sample)

\* a refused slice, an iteration run to its end and a conversion, on one
\* batch
C16_Witness ==
    /\ slc.status = "ValueError"
    /\ it.pc = "done"
    /\ Len(yielded) >= 2
    /\ call.op = "to_numpy"
    /\ call.status = "ok"
    /\ call.axis = -1
    /\ sr.n_sample >= 2

---------------------------------------------------------------------------
(* Independence of slices *)

\* C17: slices are independent of their source and of each other: after
\* an element of a value or weight sequence of one batch (the source, a
\* slice of it, or a slice an iteration yielded) is overwritten, every
\* other batch held shows what it showed before.
C17_IndependentSlices ==
    (call.op = "setitem" /\ call.status = "ok") =>
        \A j \in 1 .. Len(Handles) :
            j # call.target => Contents(mem, Handles[j]) = call.before[j]

---------------------------------------------------------------------------
(* The embedded Problem Specification *)

\* a change was made to a problem dictionary
Changed == call.op \in {"setkey", "setentry"}

\* dictionary d shows what it showed before the change
Same(d) == Problem(heap, d) = call.before[d]

\* C18: the Problem Specification embedded in a batch is a copy: after the
\* caller's problem is changed (a key added or replaced, or an entry of its
\* names or bounds changed) the ones embedded in the batch and in its slice
\* are as before, and after the one embedded in the slice is changed the one
\* embedded in the batch is as before.
C18_ProblemCopied ==
    Changed =>
        /\ call.target = call.problem =>
                /\ Same(sr._problem.ref)
                /\ slc.status = "ok" => Same(slc.batch._problem.ref)
        /\ (slc.status = "ok" /\ call.target = slc.batch._problem.ref) =>
                Same(sr._problem.ref)

---------------------------------------------------------------------------
(* Invariants of every batch obtained *)

\* C19 as stated: every batch obtained from generate_samples or from any
\* sequence of slice and iterslice calls has a positive n_sample.
C19_PositiveSize ==
    \A j \in 1 .. Len(Handles) : Handles[j].n_sample > 0

\* C19, amended: every batch obtained from generate_samples with an integer
\* n >= 0, or from it by any sequence of slice and iterslice calls, has an
\* n_sample that is a non-negative integer: n for the generated batch,
\* end - start for a slice, which is 0 when end = start.
C19_NonNegativeSize ==
    /\ \A j \in 1 .. Len(Handles) : Handles[j].n_sample \in Nat
    /\ call.op = "generate_samples" =>
            \A j \in 1 .. Len(Handles) : Handles[j].n_sample <= call.args.n
    /\ slc.status = "ok" =>
            /\ slc.batch.n_sample = slc.end - slc.start
            /\ slc.end = slc.start => slc.batch.n_sample = 0

\* an empty slice of a slice that is not empty, next to yielded slices
C19_Witness ==
    /\ slc.status = "ok"
    /\ slc.batch.n_sample = 0
    /\ sr.n_sample = 1
    /\ call.args.n = 2
    /\ Len(yielded) >= 1

\* C20: in every batch obtained from generate_samples on an accepted
\* problem or from any sequence of slice and iterslice calls, for every
\* variable name of the embedded Problem Specification the value sequence
\* (key name) and the weight sequence (key _name) are present and have
\* length exactly n_sample.
C20_SequencesPresent ==
    \A j \in 1 .. Len(Handles) :
        LET b == Handles[j]
            names == b._problem.val.names
        IN  \A i \in 1 .. Len(names) :
                /\ names[i] \in DOMAIN b
                /\ ("_" \o names[i]) \in DOMAIN b
                /\ Len(Elems(mem, b[names[i]])) = b.n_sample
                /\ Len(Elems(mem, b["_" \o names[i]])) = b.n_sample

\* a slice of one set taken inside a slice of two, and a yielded slice
C20_Witness ==
    /\ slc.status = "ok"
    /\ slc.batch.n_sample = 1
    /\ slc.start = 1
    /\ sr.n_sample = 2
    /\ Len(sr._problem.val.names) = 2
    /\ Len(yielded) >= 2
    /\ yielded[2].n_sample = 1

---------------------------------------------------------------------------
(* The invariant of a problem *)

\* names, bounds and num_vars agree in number, no name occurs twice and
\* low < high in every pair
WellFormed(p) ==
    /\ Len(p.val.names) = Len(p.val.bounds)
    /\ Len(p.val.names) = p.val.num_vars
    /\ \A i, j \in 1 .. Len(p.val.names) :
            i # j => p.val.names[i] # p.val.names[j]
    /\ \A i \in 1 .. Len(p.val.bounds) :
            p.val.bounds[i][1] < p.val.bounds[i][2]

\* C21: every problem for which generate_samples returns a batch satisfies
\* the invariant of a problem: as many names as bounds as num_vars, names
\* pairwise distinct, low < high in every pair; a problem that breaks it
\* is rejected.
C21_ProblemInvariant ==
    Generated => WellFormed(call.args.problem)

---------------------------------------------------------------------------
(* Validation of mean and coef_std *)

\* the items of a mean dictionary, as a set
MeanItems(m) == {m.val[j] : j \in 1 .. Len(m.val)}

\* mean is neither None nor a dictionary, or holds a value that is no number
BadMean(m) ==
    /\ m # PyNone
    /\ \/ m.type # "dict"
       \/ \E item \in MeanItems(m) : item[2].type \notin {"int", "float"}

\* coef_std is given and is no number
BadCoefStd(c) == c # PyNone /\ c.type \notin {"int", "float"}

\* mean is a dictionary of numbers with a name the problem does not have
AbsentNameOnly(m, p) ==
    /\ m.type = "dict"
    /\ ~ BadMean(m)
    /\ \E item \in MeanItems(m) : item[1] \notin NameSet(p)

\* C22: generate_samples with a mean that is neither None nor a
\* dictionary, a mean dictionary holding a non-numeric value, or a coef_std
\* of wrong type fails with a type error whichever generator is selected;
\* a mean dictionary naming a variable the problem does not have only
\* produces a warning and the batch is still generated.
C22_ArgumentErrors ==
    call.op = "generate_samples" =>
        /\ (BadMean(call.args.mean) \/ BadCoefStd(call.args.coef_std))
                => call.status = "TypeError"
        /\ (AbsentNameOnly(call.args.mean, call.args.problem)
                /\ ~ BadCoefStd(call.args.coef_std))
                => /\ call.status = "ok"
                   /\ \E j \in 1 .. Len(call.warnings) :
                            call.warnings[j].what = "mean"

\* a mean dictionary of numbers and None values, with a None among them
HasNoneValue(m) ==
    /\ m.type = "dict"
    /\ \A item \in MeanItems(m) : item[2].type \in {"int", "float", "NoneType"}
    /\ \E item \in MeanItems(m) : item[2] = PyNone

\* m with the variables whose value is None left out
WithoutNone(m) == PyDict(SelectSeq(m.val, LAMBDA item : item[2] # PyNone))

\* C23: with the normal or gaussian generator, a None value for a variable
\* inside the mean dictionary is filled in with the center of that
\* variable's bounds, exactly as if the variable had been left out of the
\* dictionary, and generation succeeds.
C23_NoneMeanFilled ==
    (/\ call.op = "generate_samples"
     /\ lower(call.args.generator.val) \in {"normal", "gaussian"}
     /\ HasNoneValue(call.args.mean)
     /\ ~ BadCoefStd(call.args.coef_std))
    => /\ call.status = "ok"
       /\ call.args.random_state # PyNone =>
            Contents(mem, sr)
                = Alone([call.args EXCEPT !.mean = WithoutNone(call.args.mean)])

---------------------------------------------------------------------------
(* Failing calls and the process-wide stream *)

\* C24: whenever generate_samples fails with an error, it fails before
\* reseeding and before drawing: the failed call leaves the process-wide
\* random state exactly as it was before the call, and no batch, partial
\* or whole, comes out of it.
C24_FailsBeforeReseed ==
    [][(call'.op = "generate_samples" /\ call'.status # "ok")
            => (np_random' = np_random /\ sr' = sr /\ mem' = mem)]_vars

---------------------------------------------------------------------------
(* Seeded and unseeded calls on the process-wide stream *)

\* the state the stream is in when a call with arguments a, made in state
\* r, starts to draw
StartOfDraws(a, r) ==
    IF a.random_state = PyNone THEN r ELSE np_random_seed(a.random_state.val)

---------------------------------------------------------------------------
(* When iterslice validates *)

\* C26: the range validation of by happens at the invocation of iterslice:
\* with by > n_sample the call raises the range error when it is made,
\* before any slice is requested, so that no sequence is ever held whose
\* by exceeds the size of its batch and that has not raised.
C26_EagerRangeError ==
    (it.pc # "none" /\ it.by > it.self.n_sample) => it.pc = "raised"

---------------------------------------------------------------------------
(* Sequences over one batch *)

\* the slices a sequence made with by has yielded after k requests when it
\* is the only one advancing: slice j covers [(j - 1) * by, j * by), held
\* back at the size of the batch
AloneYields(by, k) ==
    [j \in 1 .. k |->
        slice(sr, np_minimum(j * by, sr.n_sample), (j - 1) * by).batch]

\* what holds of each sequence in every state: its slices are those it
\* yields alone, in ascending order from index 0, and it has ended only
\* when nothing of the batch is left
SequenceLaw(g) ==
    it[g].pc # "none" =>
        /\ yielded[g] = AloneYields(it[g].by, Len(yielded[g]))
        /\ \A j \in 1 .. Len(yielded[g]) :
                yielded[g][j].cp.off = (j - 1) * it[g].by
        /\ it[g].pc = "created" => yielded[g] = <<>>
        /\ (it[g].pc = "done" /\ it[g].by # 0) =>
                Len(yielded[g]) * it[g].by >= sr.n_sample

\* what holds of each step: the other sequence is left as it is, and a
\* request to a sequence that has ended or raised yields nothing
StepLaw ==
    call'.op \in {"iterslice", "next"} =>
        /\ \A h \in Generators \ {call'.gen} :
                it'[h] = it[h] /\ yielded'[h] = yielded[h]
        /\ (call'.op = "next" /\ it[call'.gen].pc \in {"done", "raised"}) =>
                /\ call'.status = "StopIteration"
                /\ it' = it
                /\ yielded' = yielded
        /\ call'.op = "iterslice" =>
                /\ it'[call'.gen].pc = "created"
                /\ yielded'[call'.gen] = <<>>

\* C27: a sequence returned by iterslice yields its slices on demand in
\* ascending index order and is not restartable: once exhausted it yields
\* nothing more; each new call to iterslice on the same batch starts again
\* from index 0, and two sequences obtained from the same batch advance
\* independently of each other, in any interleaving of their steps.
C27_IndependentSequences ==
    /\ [](\A g \in Generators : SequenceLaw(g))
    /\ [][StepLaw]_vars

\* one sequence has ended after two slices and was asked again, while the
\* other, made with another by, is suspended after its first slice
C27_Witness ==
    /\ call.op = "next"
    /\ call.gen = "g1"
    /\ call.status = "StopIteration"
    /\ it["g1"].pc = "done"
    /\ Len(yielded["g1"]) = 2
    /\ it["g2"].pc = "suspended"
    /\ Len(yielded["g2"]) = 1
    /\ it["g2"].by # it["g1"].by

---------------------------------------------------------------------------
(* The sums of squared gradients *)

\* x >= 0
NonNegative(x) == RLe(RInt(0), x)

\* C28: over any sequence of update calls on one adagrad instance every
\* element of G is non-negative and never decreases from one call to the
\* next: a call that returns adds to it exactly the square of its gradient
\* element; the E of an rmsprop instance is non-negative after every
\* update when 0 <= rho <= 1.
C28_AccumulatorsNonNegative ==
    Updated =>
        /\ (Self.name = "adagrad" /\ Self.G # PyNone) =>
                \A k \in 1 .. Len(Self.G.val) :
                    /\ NonNegative(NewAcc("G", k))
                    /\ RLe(OldAcc("G", k), NewAcc("G", k))
                    /\ call.status = "ok" =>
                            NewAcc("G", k)
                                = RAdd(OldAcc("G", k),
                                       RMul(GradAt(k), GradAt(k)))
        /\ (Self.name = "rmsprop" /\ Self.Eg # PyNone
                /\ NonNegative(Self.rho) /\ RLe(Self.rho, RInt(1))) =>
                \A k \in 1 .. Len(Self.Eg.val) : NonNegative(NewAcc("Eg", k))

\* a third update of an adagrad instance, with a negative gradient element,
\* on a G that earlier gradients made positive
C28_Witness ==
    /\ Updated
    /\ call.status = "ok"
    /\ Self.name = "adagrad"
    /\ call.count = 3
    /\ call.grad = <<Rat(1, 2), Rat(-1, 2)>>
    /\ call.before.G.val = <<RInt(2), RInt(2)>>

---------------------------------------------------------------------------
(* What update leaves alone *)

\* the cells of the arrays instance self holds
OwnCells(self) ==
    {self[a].ref : a \in {x \in DOMAIN self : Holds(self.name, self, x)}}

\* the attributes of an instance that update may assign
Assignable(self) ==
    {ArrayAttributes(self.name)[i] : i \in 1 .. Len(ArrayAttributes(self.name))}

\* C29: for every optimizer, update(w, grad_wrt_w) changes only the
\* accumulators of the instance it is called on: the caller's w and
\* gradient arrays and every other array that existed are as before, the
\* result is a new tensor, the hyperparameters of the instance are as
\* before, and the other instance and its accumulators are untouched.
C29_UpdateFrame ==
    Updated =>
        LET b == call.before
            o == call.var
        IN  /\ \A a \in 1 .. Len(b.heap) :
                    a \notin OwnCells(b.opt[o]) => heap[a] = b.heap[a]
            /\ call.status = "ok" => call.result > Len(b.heap)
            /\ \A key \in (DOMAIN b.opt[o]) \ Assignable(b.opt[o]) :
                    opt[o][key] = b.opt[o][key]
            /\ \A p \in Instances \ {o} : opt[p] = b.opt[p]

\* the third update, made on an adagrad instance that holds its G, while
\* the other instance, an adam one, holds its moments
C29_Witness ==
    /\ Updated
    /\ call.status = "ok"
    /\ call.count = 3
    /\ Self.name = "adagrad"
    /\ call.before.opt[call.var].G # PyNone
    /\ heap[Self.G.ref] # call.before.heap[Self.G.ref]
    /\ \E p \in Instances \ {call.var} :
            /\ opt[p].name = "adam"
            /\ opt[p].m # PyNone

---------------------------------------------------------------------------
(* Empty slices and iterslice(0) *)

\* C30: every slice yielded by iterslice(by) is non-empty, for every by it
\* accepts; iterslice(0) raises no error and yields no slice at all: the
\* first request ends the sequence.
C30_NoEmptySlice ==
    /\ \A j \in 1 .. Len(yielded) : yielded[j].n_sample >= 1
    /\ (it.pc # "none" /\ it.by = 0) =>
            /\ yielded = <<>>
            /\ it.pc \in {"created", "done"}
            /\ Advanced => call.status = "StopIteration"

\* a sequence made with by = 0 on a batch that is not empty was asked for
\* a slice
C30_Witness ==
    /\ it.pc = "done"
    /\ it.by = 0
    /\ it.self.n_sample >= 2
    /\ yielded = <<>>
    /\ call.op = "next"

===========================================================================
